---- MODULE Spec2Model ----
(***************************************************************************)
(* Timed multi-round challenge engines of the assessment front end.        *)
(*                                                                         *)
(*   LocalSpec   the local engine, src/BubbleSort.tsx (component           *)
(*               BubbleSort): session and round countdowns, the scorer,    *)
(*               the round latch and the settle-delay timeout.             *)
(*   RemoteSpec  the remote-backed engine, src/PipePuzzle.tsx (component   *)
(*               PathfinderGame): the local shadow of a remote session.    *)
(*                                                                         *)
(* React semantics used throughout: every callback (click handler, timer   *)
(* callback, promise continuation) runs to completion, and the render it   *)
(* causes is committed before the next callback runs.  A value a callback  *)
(* reads through its closure is therefore the value of the last render,    *)
(* except for a callback that was created earlier and fires later (the     *)
(* settle-delay timeout): that one carries the values of the render in     *)
(* which it was created.  Functional updates (setX(prev => ...)) read the  *)
(* live state.  State updater functions run once (production build).       *)
(***************************************************************************)
EXTENDS Integers, Sequences, FiniteSets, TLC

VARIABLES
    \* ---- local engine (BubbleSort) ----
    screen,          \* 'INSTRUCTIONS' | 'PLAYING' | 'COMPLETE'
    round,           \* round index
    sessionTime,     \* session countdown, seconds
    roundTime,       \* round countdown, seconds
    bubbles,         \* sequence of [id, value, selected]
    selectionOrder,  \* advance-rank counter
    roundResults,    \* sequence of RoundResult
    correctCount,
    wrongCount,
    totalScore,
    processing,      \* a round completion is scheduled
    roundEnded,      \* roundEndedRef.current, the one-shot latch
    timeouts,        \* pending setTimeout(() => endRound(true)) closures, oldest first
    entered,         \* history: number of startRound calls since handleStart
    \* ---- remote-backed engine (PathfinderGame) ----
    sessionId,
    gameState,       \* [grid, status, selectedTile, timeRemaining, attempts, moves, rotations, flips]
    animationPath,
    inflight,        \* remote calls awaiting their response
    wonTimers,       \* pending setTimeout(... status: 'WON') callbacks
    recording,       \* history switch: calls keep the state they were invoked in
    settled,         \* history: how the call that settled last ended
    clocked,         \* clock switch: the WON timeouts keep their delay and the time waited
    rocket,          \* GameGrid: [pos:    index of the waypoint rocketPos shows, or NULL,
                     \*            timers: the pending setRocketPos timeouts of the replay]
    \* ---- PipePuzzle around PathfinderGame ----
    levels,          \* [step:         'GAME' | 'RESULTS',
                     \*  currentLevel: index of the level on screen, key of the instance,
                     \*  orphans:      calls and timeouts of torn-down instances, pending,
                     \*  lateUpdate:   history, a completion called a state setter of a
                     \*                torn-down instance,
                     \*  flow:         switch: the level results, the results call and
                     \*                local storage are followed,
                     \*  results:      the LevelResult list,
                     \*  saves:        saveResults calls awaiting their response,
                     \*  storage:      localStorage item 'assessment_results', or NULL]
    \* ---- expression generator (BubbleSort) ----
    timed,           \* the local engine on a clock: see the section on its timing
    app,             \* App of main.tsx: see the section on entry gating
    gen              \* a generateBubbles call:
                     \* [pc:         "idle" | "draw" | "test" | "done",
                     \*  config, layout, i, attempts, usedValues, bubbles: its locals,
                     \*  expr:       the last return value of generateExpression, or NULL,
                     \*  roundNum:   the argument of the startRound call looked up, or 0,
                     \*  repeats:    history, attempts of this slot that drew a value in use,
                     \*  exhausted:  history, slots filled after every attempt was a repeat]

localVars == <<screen, round, sessionTime, roundTime, bubbles, selectionOrder,
               roundResults, correctCount, wrongCount, totalScore, processing,
               roundEnded, timeouts, entered>>
levelVars == <<levels>>
remoteVars == <<sessionId, gameState, animationPath, inflight, wonTimers, recording,
               settled, clocked, rocket, levelVars>>
generatorVars == <<gen>>
timedVars == <<timed>>
entryVars == <<app>>
vars == <<localVars, remoteVars, generatorVars, timedVars, entryVars>>

(***************************************************************************)
(* Bounds of the model.  The tunables of BubbleSort.tsx (SESSION_DURATION,  *)
(* ROUND_TIME, TOTAL_QUESTIONS; shipped as 420, 15, 20) and of             *)
(* PipePuzzle.tsx (GAME_DURATION; shipped as 240) are scaled down.         *)
(***************************************************************************)
SESSION_DURATION == 2
ROUND_TIME == 2
TOTAL_QUESTIONS == 2
MaxWrong == 1
MaxPending == 1
GAME_DURATION == 2
ANIMATION_STEP_MS == 400
ANIMATION_END_BUFFER_MS == 800
MaxInflight == 2
MaxCount == 1
LevelCount == 2
MaxNumber == 2
RetryCap == 2
MaxRound == 10
TimedSession == 3
MaxRuns == 3

Min(a, b) == IF a <= b THEN a ELSE b

(***************************************************************************)
(* Local engine                                                            *)
(***************************************************************************)
bubbleCount == 3

DIFFICULTY_TABLE ==
    << [bubbleCount |-> bubbleCount, operators |-> <<"+">>,                maxNumber |-> 20, roundTime |-> ROUND_TIME],
       [bubbleCount |-> bubbleCount, operators |-> <<"+">>,                maxNumber |-> 30, roundTime |-> ROUND_TIME],
       [bubbleCount |-> bubbleCount, operators |-> <<"+", "-">>,           maxNumber |-> 20, roundTime |-> ROUND_TIME],
       [bubbleCount |-> bubbleCount, operators |-> <<"+", "-">>,           maxNumber |-> 30, roundTime |-> ROUND_TIME],
       [bubbleCount |-> bubbleCount, operators |-> <<"+", "-", "*">>,      maxNumber |-> 15, roundTime |-> ROUND_TIME],
       [bubbleCount |-> bubbleCount, operators |-> <<"+", "-", "*">>,      maxNumber |-> 20, roundTime |-> ROUND_TIME],
       [bubbleCount |-> bubbleCount, operators |-> <<"+", "-", "*", "/">>, maxNumber |-> 20, roundTime |-> ROUND_TIME],
       [bubbleCount |-> bubbleCount, operators |-> <<"+", "-", "*", "/">>, maxNumber |-> 30, roundTime |-> ROUND_TIME] >>

\* The table lookup wrapping around past the last entry.
config_wrapping(roundNum) == DIFFICULTY_TABLE[((roundNum - 1) % Len(DIFFICULTY_TABLE)) + 1]

\* DIFFICULTY_TABLE[Math.min(roundNum - 1, DIFFICULTY_TABLE.length - 1)], 0-based there
config(roundNum) == DIFFICULTY_TABLE[Min(roundNum - 1, Len(DIFFICULTY_TABLE) - 1) + 1]

\* The stimulus sets generateBubbles can return for a round: ids 0..bubbleCount-1 in
\* generation order, nothing selected.  The values are drawn at random and a value may
\* repeat (the retry loop gives up after 50 attempts).  The engine only compares
\* values, so the local engine takes them as ranks: the tuples over 1..bubbleCount
\* that use the ranks 1..k with no gap.  Every way of ordering bubbleCount values,
\* ties included, is one of these tuples.
generateBubbles(cfg, roundNum) ==
    { [i \in 1..cfg.bubbleCount |-> [id |-> i - 1, value |-> v[i], selected |-> FALSE]] :
        v \in { w \in [1..cfg.bubbleCount -> 1..cfg.bubbleCount] :
                   \A i \in DOMAIN w : w[i] = 1 \/ \E j \in DOMAIN w : w[j] = w[i] - 1 } }

\* The values an endRound/handleSubmit closure captured at its render.
Closure == [round |-> round, correctCount |-> correctCount,
            wrongCount |-> wrongCount, sessionTime |-> sessionTime]

\* A RoundResult whose score is the number of correct selections alone.
RoundResult_grossScore(c, completed) ==
    [round |-> c.round, correct |-> c.correctCount, wrong |-> c.wrongCount,
     score |-> c.correctCount, completed |-> completed]

RoundResult(c, completed) ==
    [round |-> c.round, correct |-> c.correctCount, wrong |-> c.wrongCount,
     score |-> c.correctCount - c.wrongCount, completed |-> completed]

\* startRound without setCorrectCount(0).
startRound_keepCount(roundNum, updaterReturn) ==
    /\ bubbles' \in generateBubbles(config(roundNum), roundNum)
    /\ roundTime' \in {config(roundNum).roundTime} \cup updaterReturn
    /\ selectionOrder' = 0
    /\ UNCHANGED correctCount
    /\ wrongCount' = 0
    /\ processing' = FALSE
    /\ roundEnded' = FALSE
    /\ entered' = entered + 1

\* startRound(roundNum).  updaterReturn is empty, except when startRound runs inside
\* the round timer's setRoundTime updater: that updater returns 0 after startRound
\* has called setRoundTime(cfg.roundTime), and which of the two React applies last
\* depends on whether it ran the updater eagerly or during the render.
startRound(roundNum, updaterReturn) ==
    /\ bubbles' \in generateBubbles(config(roundNum), roundNum)
    /\ roundTime' \in {config(roundNum).roundTime} \cup updaterReturn
    /\ selectionOrder' = 0
    /\ correctCount' = 0
    /\ wrongCount' = 0
    /\ processing' = FALSE
    /\ roundEnded' = FALSE
    /\ entered' = entered + 1

\* endRound with a startRound that also switches the screen back to PLAYING.
endRound_reenter(completed, c, notStarted, updaterReturn) ==
    IF roundEnded
    THEN /\ roundTime' = notStarted
         /\ UNCHANGED <<screen, round, bubbles, selectionOrder, roundResults, correctCount,
                        wrongCount, totalScore, processing, roundEnded, entered>>
    ELSE /\ totalScore' = totalScore + (c.correctCount - c.wrongCount)
         /\ roundResults' = Append(roundResults, RoundResult(c, completed))
         /\ IF c.sessionTime <= 0 \/ c.round >= TOTAL_QUESTIONS
            THEN /\ screen' = "COMPLETE"
                 /\ roundEnded' = TRUE
                 /\ roundTime' = notStarted
                 /\ UNCHANGED <<round, bubbles, selectionOrder, correctCount, wrongCount,
                                processing, entered>>
            ELSE /\ round' = round + 1
                 /\ startRound(c.round + 1, updaterReturn)
                 /\ screen' = "PLAYING"

\* endRound(completed) of the render whose values are c.  notStarted is the value the
\* round countdown is left with when no round is started.
endRound(completed, c, notStarted, updaterReturn) ==
    IF roundEnded
    THEN /\ roundTime' = notStarted
         /\ UNCHANGED <<screen, round, bubbles, selectionOrder, roundResults, correctCount,
                        wrongCount, totalScore, processing, roundEnded, entered>>
    ELSE /\ totalScore' = totalScore + (c.correctCount - c.wrongCount)
         /\ roundResults' = Append(roundResults, RoundResult(c, completed))
         /\ IF c.sessionTime <= 0 \/ c.round >= TOTAL_QUESTIONS
            THEN /\ screen' = "COMPLETE"
                 /\ roundEnded' = TRUE
                 /\ roundTime' = notStarted
                 /\ UNCHANGED <<round, bubbles, selectionOrder, correctCount, wrongCount,
                                processing, entered>>
            ELSE /\ round' = round + 1
                 /\ startRound(c.round + 1, updaterReturn)
                 /\ UNCHANGED screen

\* A pending settle-delay timeout lasts 250 ms and the two intervals tick once a
\* second: at most one tick of each interval falls into its lifetime.
NoteTick(which) ==
    [i \in 1..Len(timeouts) |-> [timeouts[i] EXCEPT ![which] = TRUE]]
TickAllowed(which) ==
    \A i \in 1..Len(timeouts) : ~timeouts[i][which]

\* The session timer without the setScreen('COMPLETE') of its last tick.
SessionTick_noComplete ==
    /\ screen = "PLAYING"
    /\ TickAllowed("sTick")
    /\ sessionTime' = IF sessionTime <= 1 THEN 0 ELSE sessionTime - 1
    /\ timeouts' = NoteTick("sTick")
    /\ UNCHANGED <<screen, round, roundTime, bubbles, selectionOrder, roundResults,
                   correctCount, wrongCount, totalScore, processing, roundEnded, entered>>
    /\ UNCHANGED <<remoteVars, generatorVars, timedVars, entryVars>>

\* Session timer: setSessionTime(prev => ...) every second while PLAYING.
SessionTick ==
    /\ screen = "PLAYING"
    /\ TickAllowed("sTick")
    /\ IF sessionTime <= 1
       THEN /\ screen' = "COMPLETE"
            /\ sessionTime' = 0
       ELSE /\ sessionTime' = sessionTime - 1
            /\ UNCHANGED screen
    /\ timeouts' = NoteTick("sTick")
    /\ UNCHANGED <<round, roundTime, bubbles, selectionOrder, roundResults, correctCount,
                   wrongCount, totalScore, processing, roundEnded, entered>>
    /\ UNCHANGED <<remoteVars, generatorVars, timedVars, entryVars>>

\* The round timer ending the round as completed: endRoundRef.current(true).
RoundTick_completed ==
    /\ screen = "PLAYING"
    /\ TickAllowed("rTick")
    /\ IF roundTime <= 1
       THEN endRound(TRUE, Closure, 0, {0})
       ELSE /\ roundTime' = roundTime - 1
            /\ UNCHANGED <<screen, round, bubbles, selectionOrder, roundResults,
                           correctCount, wrongCount, totalScore, processing, roundEnded,
                           entered>>
    /\ timeouts' = NoteTick("rTick")
    /\ UNCHANGED sessionTime
    /\ UNCHANGED <<remoteVars, generatorVars, timedVars, entryVars>>

\* Round timer: setRoundTime(prev => ...) every second while PLAYING;
\* endRoundRef.current is the endRound of the last render.
RoundTick ==
    /\ screen = "PLAYING"
    /\ TickAllowed("rTick")
    /\ IF roundTime <= 1
       THEN endRound(FALSE, Closure, 0, {0})
       ELSE /\ roundTime' = roundTime - 1
            /\ UNCHANGED <<screen, round, bubbles, selectionOrder, roundResults,
                           correctCount, wrongCount, totalScore, processing, roundEnded,
                           entered>>
    /\ timeouts' = NoteTick("rTick")
    /\ UNCHANGED sessionTime
    /\ UNCHANGED <<remoteVars, generatorVars, timedVars, entryVars>>

\* The first of the sorted list with an unstable sort that puts the bubble generated
\* last first among equal values.
FirstUnselected_last(prev) ==
    CHOOSE i \in DOMAIN prev :
        /\ ~prev[i].selected
        /\ \A j \in DOMAIN prev :
             ~prev[j].selected =>
                \/ prev[i].value < prev[j].value
                \/ (prev[i].value = prev[j].value /\ i >= j)

\* prev.filter(b => !b.selected).sort((a, b) => a.value - b.value)[0]: the sort is
\* stable, so among equal values the bubble generated first comes first.
FirstUnselected(prev) ==
    CHOOSE i \in DOMAIN prev :
        /\ ~prev[i].selected
        /\ \A j \in DOMAIN prev :
             ~prev[j].selected =>
                \/ prev[i].value < prev[j].value
                \/ (prev[i].value = prev[j].value /\ i <= j)

AllSelected(bs) == \A i \in DOMAIN bs : bs[i].selected

\* handleBubbleClick ending the round in the click that consumes the last bubble,
\* with no settle delay.
handleBubbleClick_noDelay(bubbleId) ==
    /\ UNCHANGED sessionTime
    /\ UNCHANGED <<remoteVars, generatorVars, timedVars, entryVars>>
    /\ LET idle == UNCHANGED <<screen, round, roundTime, bubbles, selectionOrder,
                               roundResults, correctCount, wrongCount, totalScore,
                               processing, roundEnded, timeouts, entered>>
           found == {i \in DOMAIN bubbles : bubbles[i].id = bubbleId}
       IN IF processing \/ screen # "PLAYING" \/ found = {}
             \/ (\E i \in found : bubbles[i].selected)
          THEN idle
          ELSE LET b == CHOOSE i \in found : TRUE
                   updated == [bubbles EXCEPT ![b].selected = TRUE]
               IN IF bubbles[b].id # bubbles[FirstUnselected(bubbles)].id
                  THEN /\ wrongCount < MaxWrong
                       /\ wrongCount' = wrongCount + 1
                       /\ UNCHANGED <<screen, round, roundTime, bubbles, selectionOrder,
                                      roundResults, correctCount, totalScore, processing,
                                      roundEnded, timeouts, entered>>
                  ELSE IF AllSelected(updated)
                       THEN /\ endRound(TRUE, Closure, roundTime, {})
                            /\ UNCHANGED timeouts
                       ELSE /\ correctCount' = correctCount + 1
                            /\ selectionOrder' = selectionOrder + 1
                            /\ bubbles' = updated
                            /\ UNCHANGED <<screen, round, roundTime, roundResults,
                                           wrongCount, totalScore, processing, roundEnded,
                                           timeouts, entered>>

\* handleBubbleClick consuming the bubble of a wrong selection as well.
handleBubbleClick_consumeWrong(bubbleId) ==
    /\ UNCHANGED <<screen, round, sessionTime, roundTime, roundResults, totalScore,
                   roundEnded, entered>>
    /\ UNCHANGED <<remoteVars, generatorVars, timedVars, entryVars>>
    /\ LET found == {i \in DOMAIN bubbles : bubbles[i].id = bubbleId} IN
       IF processing \/ screen # "PLAYING" \/ found = {}
          \/ (\E i \in found : bubbles[i].selected)
       THEN UNCHANGED <<bubbles, selectionOrder, correctCount, wrongCount, processing, timeouts>>
       ELSE LET b == CHOOSE i \in found : TRUE
                updated == [bubbles EXCEPT ![b].selected = TRUE]
            IN /\ bubbles' = updated
               /\ IF bubbles[b].id = bubbles[FirstUnselected(bubbles)].id
                  THEN /\ correctCount' = correctCount + 1
                       /\ selectionOrder' = selectionOrder + 1
                       /\ UNCHANGED wrongCount
                  ELSE /\ wrongCount < MaxWrong
                       /\ wrongCount' = wrongCount + 1
                       /\ UNCHANGED <<selectionOrder, correctCount>>
               /\ IF AllSelected(updated)
                  THEN /\ Len(timeouts) < MaxPending
                       /\ processing' = TRUE
                       /\ timeouts' = Append(timeouts,
                              [c |-> Closure, sTick |-> FALSE, rTick |-> FALSE])
                  ELSE UNCHANGED <<processing, timeouts>>

\* handleBubbleClick without the test of bubble.selected.
handleBubbleClick_reselect(bubbleId) ==
    /\ UNCHANGED <<screen, round, sessionTime, roundTime, roundResults, totalScore,
                   roundEnded, entered>>
    /\ UNCHANGED <<remoteVars, generatorVars, timedVars, entryVars>>
    /\ LET found == {i \in DOMAIN bubbles : bubbles[i].id = bubbleId} IN
       IF processing \/ screen # "PLAYING" \/ found = {}
       THEN UNCHANGED <<bubbles, selectionOrder, correctCount, wrongCount, processing, timeouts>>
       ELSE LET b == CHOOSE i \in found : TRUE
                updated == [bubbles EXCEPT ![b].selected = TRUE]
            IN IF bubbles[b].id = bubbles[FirstUnselected(bubbles)].id
               THEN /\ correctCount' = correctCount + 1
                    /\ selectionOrder' = selectionOrder + 1
                    /\ bubbles' = updated
                    /\ UNCHANGED wrongCount
                    /\ IF AllSelected(updated)
                       THEN /\ Len(timeouts) < MaxPending
                            /\ processing' = TRUE
                            /\ timeouts' = Append(timeouts,
                                   [c |-> Closure, sTick |-> FALSE, rTick |-> FALSE])
                       ELSE UNCHANGED <<processing, timeouts>>
               ELSE /\ wrongCount < MaxWrong
                    /\ wrongCount' = wrongCount + 1
                    /\ UNCHANGED <<bubbles, selectionOrder, correctCount, processing, timeouts>>

\* handleBubbleClick(bubbleId)
handleBubbleClick(bubbleId) ==
    /\ UNCHANGED <<screen, round, sessionTime, roundTime, roundResults, totalScore,
                   roundEnded, entered>>
    /\ UNCHANGED <<remoteVars, generatorVars, timedVars, entryVars>>
    /\ IF processing \/ screen # "PLAYING"
       THEN UNCHANGED <<bubbles, selectionOrder, correctCount, wrongCount, processing, timeouts>>
       ELSE LET found == {i \in DOMAIN bubbles : bubbles[i].id = bubbleId} IN
            IF found = {} \/ (\E i \in found : bubbles[i].selected)
            THEN UNCHANGED <<bubbles, selectionOrder, correctCount, wrongCount, processing, timeouts>>
            ELSE LET b == CHOOSE i \in found : TRUE
                     isCorrect == bubbles[b].id = bubbles[FirstUnselected(bubbles)].id
                     updated == [bubbles EXCEPT ![b].selected = TRUE]
                 IN IF isCorrect
                    THEN /\ correctCount' = correctCount + 1
                         /\ selectionOrder' = selectionOrder + 1
                         /\ bubbles' = updated
                         /\ UNCHANGED wrongCount
                         /\ IF AllSelected(updated)
                            THEN /\ Len(timeouts) < MaxPending
                                 /\ processing' = TRUE
                                 /\ timeouts' = Append(timeouts,
                                        [c |-> Closure, sTick |-> FALSE, rTick |-> FALSE])
                            ELSE UNCHANGED <<processing, timeouts>>
                    ELSE /\ wrongCount < MaxWrong
                         /\ wrongCount' = wrongCount + 1
                         /\ UNCHANGED <<bubbles, selectionOrder, correctCount, processing, timeouts>>

BubbleClick == \E bubbleId \in 0..bubbleCount : handleBubbleClick(bubbleId)

\* The settle-delay timeout fires: endRound(true) of the render in which the last
\* correct click was handled.  Nothing cancels it.
TimeoutFire ==
    /\ timeouts # <<>>
    /\ endRound(TRUE, Head(timeouts).c, roundTime, {})
    /\ timeouts' = Tail(timeouts)
    /\ UNCHANGED sessionTime
    /\ UNCHANGED <<remoteVars, generatorVars, timedVars, entryVars>>

\* handleStart without its call of startRound(1).
handleStart_noRound ==
    /\ screen = "INSTRUCTIONS"
    /\ screen' = "PLAYING"
    /\ round' = 1
    /\ sessionTime' = SESSION_DURATION
    /\ roundResults' = <<>>
    /\ totalScore' = 0
    /\ UNCHANGED <<roundTime, bubbles, selectionOrder, correctCount, wrongCount,
                   processing, roundEnded, timeouts, entered>>
    /\ UNCHANGED <<remoteVars, generatorVars, timedVars, entryVars>>

\* handleStart: the Begin button of the INSTRUCTIONS screen.
handleStart ==
    /\ screen = "INSTRUCTIONS"
    /\ screen' = "PLAYING"
    /\ round' = 1
    /\ sessionTime' = SESSION_DURATION
    /\ roundResults' = <<>>
    /\ totalScore' = 0
    /\ startRound(1, {})
    /\ UNCHANGED timeouts
    /\ UNCHANGED <<remoteVars, generatorVars, timedVars, entryVars>>

\* handleSubmit: the Submit button of the PLAYING screen.
handleSubmit ==
    /\ screen = "PLAYING"
    /\ totalScore' = totalScore + (correctCount - wrongCount)
    /\ roundResults' = Append(roundResults, RoundResult(Closure, AllSelected(bubbles)))
    /\ screen' = "COMPLETE"
    /\ UNCHANGED <<round, sessionTime, roundTime, bubbles, selectionOrder, correctCount,
                   wrongCount, processing, roundEnded, timeouts, entered>>
    /\ UNCHANGED <<remoteVars, generatorVars, timedVars, entryVars>>

(***************************************************************************)
(* Local engine on a clock                                                 *)
(*                                                                         *)
(* The timing of BubbleSort.tsx: the two setInterval timers of 1000 ms,     *)
(* the settle-delay setTimeout of CORRECT_DELAY_MS, the latch and the       *)
(* closures of endRound.  Of the bubbles only the processing flag is kept:  *)
(* a selection that does not consume the last bubble changes nothing here.  *)
(* Time advances in steps of CORRECT_DELAY_MS and never past a timer that   *)
(* is due.  At the bounds the session (TimedSession) is longer than a       *)
(* round (ROUND_TIME), as it is shipped.  timed =                           *)
(*   [shipped:     the tunables have their shipped values, not the bounds,  *)
(*    screen, round, sessionTime, roundTime, processing, roundEnded,        *)
(*    sessionDue:  ms until the session timer ticks (0 when it is cleared), *)
(*    roundDue:    ms until the round timer ticks,                          *)
(*    timeouts:    pending settle delays, [c: closure, left: ms],           *)
(*    results:     number of RoundResults appended since handleStart,       *)
(*    active:      history, ms the round on display has been played,        *)
(*    completedBy: history, what set the screen to COMPLETE]                *)
(***************************************************************************)
CORRECT_DELAY_MS == 250
INTERVAL_MS == 1000

\* const SESSION_DURATION = 420; const ROUND_TIME = 15; const TOTAL_QUESTIONS = 20;
\* every entry of DIFFICULTY_TABLE has roundTime: ROUND_TIME
Shipped == [session |-> 420, round |-> 15, total |-> 20]

Tunables(ship) ==
    IF ship THEN Shipped
    ELSE [session |-> TimedSession, round |-> ROUND_TIME, total |-> TOTAL_QUESTIONS]

TimedSetup(ship) ==
    [shipped |-> ship, screen |-> "INSTRUCTIONS", round |-> 1,
     sessionTime |-> Tunables(ship).session, roundTime |-> Tunables(ship).round,
     processing |-> FALSE, roundEnded |-> FALSE, sessionDue |-> 0, roundDue |-> 0,
     timeouts |-> <<>>, results |-> 0, active |-> 0, completedBy |-> "none"]

\* startRound as seen by the clock; t already holds the round index.  The round
\* timer's effect depends on [screen, round]: a new round index clears the interval
\* and sets a new one, which ticks INTERVAL_MS later.
TimedStartRound(t, roundTime0) ==
    [t EXCEPT !.roundTime = roundTime0, !.processing = FALSE, !.roundEnded = FALSE,
              !.roundDue = IF t.screen = "PLAYING" THEN INTERVAL_MS ELSE 0,
              !.active = 0]

\* The screen becomes COMPLETE: both interval effects are cleaned up.
TimedComplete(t, by) ==
    [t EXCEPT !.screen = "COMPLETE", !.sessionDue = 0, !.roundDue = 0,
              !.completedBy = IF t.screen = "COMPLETE" THEN @ ELSE by]

\* endRound of the render whose round and sessionTime are c: the states it can leave.
TimedEndRound(t, c, notStarted, updaterReturn) ==
    IF t.roundEnded
    THEN {[t EXCEPT !.roundTime = notStarted]}
    ELSE LET r == [t EXCEPT !.results = t.results + 1] IN
         IF c.sessionTime <= 0 \/ c.round >= Tunables(t.shipped).total
         THEN {TimedComplete([r EXCEPT !.roundEnded = TRUE, !.roundTime = notStarted],
                             "endRound")}
         ELSE {TimedStartRound([r EXCEPT !.round = t.round + 1], rt) :
                 rt \in {Tunables(t.shipped).round} \cup updaterReturn}

TimedClosure == [round |-> timed.round, sessionTime |-> timed.sessionTime]

\* handleStart: both interval effects run for the PLAYING screen.
TimedStart ==
    /\ timed.screen = "INSTRUCTIONS"
    /\ timed' = TimedStartRound(
                   [timed EXCEPT !.screen = "PLAYING", !.round = 1,
                                 !.sessionTime = Tunables(timed.shipped).session,
                                 !.results = 0, !.sessionDue = INTERVAL_MS],
                   Tunables(timed.shipped).round)
    /\ UNCHANGED <<localVars, remoteVars, generatorVars, entryVars>>

\* CORRECT_DELAY_MS pass with no timer due.
TimedElapse ==
    /\ timed.screen = "PLAYING" \/ timed.timeouts # <<>>
    /\ timed.screen = "PLAYING" => (timed.sessionDue > 0 /\ timed.roundDue > 0)
    /\ \A k \in DOMAIN timed.timeouts : timed.timeouts[k].left > 0
    /\ timed' = [timed EXCEPT
                   !.sessionDue = IF timed.screen = "PLAYING" THEN @ - CORRECT_DELAY_MS ELSE @,
                   !.roundDue = IF timed.screen = "PLAYING" THEN @ - CORRECT_DELAY_MS ELSE @,
                   !.active = IF timed.screen = "PLAYING" /\ ~timed.shipped
                              THEN @ + CORRECT_DELAY_MS ELSE @,
                   !.timeouts = [k \in DOMAIN timed.timeouts |->
                                   [timed.timeouts[k] EXCEPT !.left = @ - CORRECT_DELAY_MS]]]
    /\ UNCHANGED <<localVars, remoteVars, generatorVars, entryVars>>

\* The session timer taking two seconds off the countdown per tick.
TimedSessionTick_double ==
    /\ timed.screen = "PLAYING"
    /\ timed.sessionDue = 0
    /\ timed' = IF timed.sessionTime <= 2
                THEN TimedComplete([timed EXCEPT !.sessionTime = 0], "session")
                ELSE [timed EXCEPT !.sessionTime = @ - 2, !.sessionDue = INTERVAL_MS]
    /\ UNCHANGED <<localVars, remoteVars, generatorVars, entryVars>>

\* The session timer ticks.
TimedSessionTick ==
    /\ timed.screen = "PLAYING"
    /\ timed.sessionDue = 0
    /\ timed' = IF timed.sessionTime <= 1
                THEN TimedComplete([timed EXCEPT !.sessionTime = 0], "session")
                ELSE [timed EXCEPT !.sessionTime = @ - 1, !.sessionDue = INTERVAL_MS]
    /\ UNCHANGED <<localVars, remoteVars, generatorVars, entryVars>>

\* The round timer ending the round one tick late: prev < 1 for prev <= 1.
TimedRoundTick_late ==
    /\ timed.screen = "PLAYING"
    /\ timed.roundDue = 0
    /\ IF timed.roundTime < 1
       THEN timed' \in TimedEndRound([timed EXCEPT !.roundDue = INTERVAL_MS],
                                     TimedClosure, 0, {0})
       ELSE timed' = [timed EXCEPT !.roundTime = @ - 1, !.roundDue = INTERVAL_MS]
    /\ UNCHANGED <<localVars, remoteVars, generatorVars, entryVars>>

\* The round timer ticks; endRoundRef.current is the endRound of the last render.
TimedRoundTick ==
    /\ timed.screen = "PLAYING"
    /\ timed.roundDue = 0
    /\ IF timed.roundTime <= 1
       THEN timed' \in TimedEndRound([timed EXCEPT !.roundDue = INTERVAL_MS],
                                     TimedClosure, 0, {0})
       ELSE timed' = [timed EXCEPT !.roundTime = @ - 1, !.roundDue = INTERVAL_MS]
    /\ UNCHANGED <<localVars, remoteVars, generatorVars, entryVars>>

\* handleBubbleClick consuming the last bubble: setProcessing(true) and
\* setTimeout(() => endRound(true), CORRECT_DELAY_MS) with the endRound of this render.
TimedLastClick ==
    /\ timed.screen = "PLAYING"
    /\ ~timed.processing
    /\ timed' = [timed EXCEPT
                   !.processing = TRUE,
                   !.timeouts = Append(@, [c |-> TimedClosure, left |-> CORRECT_DELAY_MS])]
    /\ UNCHANGED <<localVars, remoteVars, generatorVars, entryVars>>

\* The oldest settle delay is over and its endRound(true) runs.
TimedTimeoutFire ==
    /\ timed.timeouts # <<>>
    /\ Head(timed.timeouts).left = 0
    /\ timed' \in TimedEndRound([timed EXCEPT !.timeouts = Tail(@)],
                                Head(timed.timeouts).c, timed.roundTime, {})
    /\ UNCHANGED <<localVars, remoteVars, generatorVars, entryVars>>

\* handleSubmit
TimedSubmit ==
    /\ timed.screen = "PLAYING"
    /\ timed' = TimedComplete([timed EXCEPT !.results = @ + 1], "submit")
    /\ UNCHANGED <<localVars, remoteVars, generatorVars, entryVars>>

(***************************************************************************)
(* Remote-backed engine                                                    *)
(***************************************************************************)
\* An optional value (null | x, or an absent field) is <<>> or <<x>>.
NULL == <<>>
Some(x) == <<x>>
The(opt) == opt[1]

EMPTY_ENTRY == [row |-> 0, col |-> 0, direction |-> "LEFT"]

\* What the remote authority can answer.  A grid is a list of rows of ApiTile.
ApiTile(r, c, type, openings) ==
    [id |-> <<r, c>>, row |-> r, col |-> c, type |-> type, openings |-> openings]
ApiGrids ==
    { << <<ApiTile(0, 0, "STRAIGHT", <<"LEFT", "RIGHT">>), ApiTile(0, 1, "CORNER", <<"LEFT", "DOWN">>)>> >>,
      << <<ApiTile(0, 0, "STRAIGHT", <<"UP", "DOWN">>),    ApiTile(0, 1, "CORNER", <<"LEFT", "DOWN">>)>> >>,
      << <<ApiTile(0, 0, "STRAIGHT", <<"LEFT", "RIGHT">>), ApiTile(0, 1, "CORNER", <<"UP", "LEFT">>)>> >> }
SessionIds == {"s1"}
ApiStart == [row |-> 0, col |-> 0, direction |-> "LEFT"]
ApiEnd == [row |-> 0, col |-> 1, direction |-> "DOWN"]
ApiPaths == { <<>>, << [row |-> 0, col |-> 0] >>, << [row |-> 0, col |-> 0], [row |-> 0, col |-> 1] >> }

\* toGrid losing the openings of every tile.
toGrid_noOpenings(apiGrid) ==
    [r \in DOMAIN apiGrid |->
        [c \in DOMAIN apiGrid[r] |->
            LET t == apiGrid[r][c] IN
            [id |-> t.id, row |-> t.row, col |-> t.col, type |-> t.type,
             openings |-> <<>>]]]

\* toGrid: a fresh tile per ApiTile, five fields copied, the openings list copied.
toGrid(apiGrid) ==
    [r \in DOMAIN apiGrid |->
        [c \in DOMAIN apiGrid[r] |->
            LET t == apiGrid[r][c] IN
            [id |-> t.id, row |-> t.row, col |-> t.col, type |-> t.type,
             openings |-> [k \in DOMAIN t.openings |-> t.openings[k]]]]]

\* The cells GameGrid renders: onTileClick({ row: r, col: c }) with array indices.
TilePositions ==
    UNION { { [row |-> r - 1, col |-> c - 1] : c \in DOMAIN gameState.grid[r] } :
            r \in DOMAIN gameState.grid }

\* A remote call is issued: its kind, the session id and the cell it carries.  When
\* history is recorded, a select, rotate or flip call also keeps the local state as it
\* was immediately before the action was invoked (before).
Request_noSession(kind, pos) ==
    [kind |-> kind, sid |-> "", pos |-> pos,
     before |-> IF recording /\ kind \in {"select", "rotate", "flip"}
                THEN Some(gameState) ELSE NULL]

Request(kind, pos) ==
    [kind |-> kind, sid |-> sessionId, pos |-> pos,
     before |-> IF recording /\ kind \in {"select", "rotate", "flip"}
                THEN Some(gameState) ELSE NULL]
Issue(req) ==
    /\ Len(inflight) < MaxInflight
    /\ inflight' = Append(inflight, req)

RemoveAt(s, i) == SubSeq(s, 1, i - 1) \o SubSeq(s, i + 1, Len(s))

\* A call settles: its promise is resolved, or rejected.  Kept when history is recorded.
Settles(outcome) == settled' = IF recording THEN outcome ELSE settled

\* The countdown reaching zero without ending the session.
CountdownTick_noLoss ==
    /\ gameState.status = "PLAYING"
    /\ gameState' = IF gameState.timeRemaining <= 1
                    THEN [gameState EXCEPT !.timeRemaining = 0]
                    ELSE [gameState EXCEPT !.timeRemaining = gameState.timeRemaining - 1]
    /\ UNCHANGED <<sessionId, animationPath, inflight, wonTimers>>
    /\ UNCHANGED settled
    /\ UNCHANGED <<localVars, recording, clocked, rocket, levelVars, generatorVars, timedVars, entryVars>>

\* Countdown timer: an interval that exists while the rendered status is PLAYING.
CountdownTick ==
    /\ gameState.status = "PLAYING"
    /\ gameState' = IF gameState.timeRemaining <= 1
                    THEN [gameState EXCEPT !.timeRemaining = 0, !.status = "LOST"]
                    ELSE [gameState EXCEPT !.timeRemaining = gameState.timeRemaining - 1]
    /\ UNCHANGED <<sessionId, animationPath, inflight, wonTimers>>
    /\ UNCHANGED settled
    /\ UNCHANGED <<localVars, recording, clocked, rocket, levelVars, generatorVars, timedVars, entryVars>>

\* handleTileClick(pos): the optimistic update, then the select call.
handleTileClick(pos) ==
    /\ UNCHANGED <<sessionId, animationPath, wonTimers>>
    /\ UNCHANGED settled
    /\ UNCHANGED <<localVars, recording, clocked, rocket, levelVars, generatorVars, timedVars, entryVars>>
    /\ IF gameState.status # "PLAYING" \/ sessionId = ""
       THEN UNCHANGED <<gameState, inflight>>
       ELSE /\ gameState.moves < MaxCount
            /\ gameState' = [gameState EXCEPT !.selectedTile = Some(pos),
                                              !.moves = gameState.moves + 1]
            /\ Issue(Request("select", Some(pos)))

TileClick == \E pos \in TilePositions : handleTileClick(pos)

\* handleRotate / handleFlip: the call only; the state changes when the answer comes.
handleRotate ==
    /\ UNCHANGED <<sessionId, gameState, animationPath, wonTimers>>
    /\ UNCHANGED settled
    /\ UNCHANGED <<localVars, recording, clocked, rocket, levelVars, generatorVars, timedVars, entryVars>>
    /\ IF gameState.status # "PLAYING" \/ gameState.selectedTile = NULL \/ sessionId = ""
       THEN UNCHANGED inflight
       ELSE Issue(Request("rotate", gameState.selectedTile))

\* handleFlip sending the entry cell when nothing is selected.
handleFlip_unselected ==
    /\ UNCHANGED <<sessionId, gameState, animationPath, wonTimers>>
    /\ UNCHANGED settled
    /\ UNCHANGED <<localVars, recording, clocked, rocket, levelVars, generatorVars, timedVars, entryVars>>
    /\ IF gameState.status # "PLAYING" \/ sessionId = ""
       THEN UNCHANGED inflight
       ELSE Issue(Request("flip", IF gameState.selectedTile = NULL
                                  THEN Some([row |-> gameState.start.row,
                                             col |-> gameState.start.col])
                                  ELSE gameState.selectedTile))

handleFlip ==
    /\ UNCHANGED <<sessionId, gameState, animationPath, wonTimers>>
    /\ UNCHANGED settled
    /\ UNCHANGED <<localVars, recording, clocked, rocket, levelVars, generatorVars, timedVars, entryVars>>
    /\ IF gameState.status # "PLAYING" \/ gameState.selectedTile = NULL \/ sessionId = ""
       THEN UNCHANGED inflight
       ELSE Issue(Request("flip", gameState.selectedTile))

\* handleSubmit without the test of the session id.
pp_handleSubmit_noSession ==
    /\ UNCHANGED <<sessionId, gameState, animationPath, wonTimers>>
    /\ UNCHANGED settled
    /\ UNCHANGED <<localVars, recording, clocked, rocket, levelVars, generatorVars, timedVars, entryVars>>
    /\ IF gameState.status # "PLAYING"
       THEN UNCHANGED inflight
       ELSE Issue(Request("submit", NULL))

\* handleSubmit of PathfinderGame: the call only.
pp_handleSubmit ==
    /\ UNCHANGED <<sessionId, gameState, animationPath, wonTimers>>
    /\ UNCHANGED settled
    /\ UNCHANGED <<localVars, recording, clocked, rocket, levelVars, generatorVars, timedVars, entryVars>>
    /\ IF gameState.status # "PLAYING" \/ sessionId = ""
       THEN UNCHANGED inflight
       ELSE Issue(Request("submit", NULL))

\* A call is rejected (network or validation failure): every .catch only logs.
Rejected(i) ==
    /\ inflight' = RemoveAt(inflight, i)
    /\ UNCHANGED <<sessionId, gameState, animationPath, wonTimers>>
    /\ Settles("rejected")
    /\ UNCHANGED <<localVars, recording, clocked, rocket, levelVars, generatorVars, timedVars, entryVars>>

\* cellCenter(row, col, rows, cols): the centre of a cell, in percent of the grid.
cellCenter(row, col, rows, cols) ==
    [x |-> ((2 * col + 1) * 100) \div (2 * cols),
     y |-> ((2 * row + 1) * 100) \div (2 * rows)]

\* startOffset and endOffset of the GameGrid effect: the point outside the grid on
\* the side the entry or exit faces.
Offset(e, rows, cols) ==
    LET c == cellCenter(e.row, e.col, rows, cols) IN
    [x |-> IF e.direction = "LEFT" THEN -8 ELSE IF e.direction = "RIGHT" THEN 108 ELSE c.x,
     y |-> IF e.direction = "UP" THEN -8 ELSE IF e.direction = "DOWN" THEN 108 ELSE c.y]

\* const waypoints = [startOffset, ...animationPath.map(cellCenter), endOffset]
Waypoints(gs, path) ==
    LET rows == Len(gs.grid)
        cols == IF gs.grid = <<>> THEN 0 ELSE Len(gs.grid[1])
    IN  <<Offset(gs.start, rows, cols)>>
            \o [k \in DOMAIN path |-> cellCenter(path[k].row, path[k].col, rows, cols)]
            \o <<Offset(gs.end, rows, cols)>>

\* The GameGrid effect after a render that changed one of its dependencies: the
\* cleanup clears the pending waypoint timers, then the rocket is hidden, or put on
\* the first waypoint with one timer for each later waypoint.  The replay is
\* followed when the clock is kept.
NoRocket == [pos |-> NULL, timers |-> <<>>]
GameGridEffect(gs, path) ==
    IF ~clocked \/ gs.status # "ANIMATING" \/ path = <<>>
    THEN NoRocket
    ELSE LET waypoints == Waypoints(gs, path) IN
         [pos |-> Some(waypoints[1]),
          timers |-> [i \in 1..(Len(waypoints) - 1) |->
                        [at |-> waypoints[i + 1], delay |-> i * ANIMATION_STEP_MS,
                         waited |-> 0]]]

\* api.startGame(...).then(res => ...)
StartResponse(i, sid, apiGrid) ==
    /\ inflight[i].kind = "start"
    /\ inflight' = RemoveAt(inflight, i)
    /\ sessionId' = sid
    /\ gameState' = [grid |-> toGrid(apiGrid), start |-> ApiStart, end |-> ApiEnd,
                     status |-> "PLAYING", selectedTile |-> NULL,
                     timeRemaining |-> GAME_DURATION, attempts |-> 0, moves |-> 0,
                     rotations |-> 0, flips |-> 0]
    /\ UNCHANGED <<animationPath, wonTimers>>
    /\ Settles("resolved")
    /\ rocket' = GameGridEffect(gameState', animationPath')
    /\ UNCHANGED <<localVars, recording, clocked, levelVars, generatorVars, timedVars, entryVars>>

\* api.selectTile(...) resolved with { moves }: the call has no .then, so nothing
\* reads the answer.
SelectResponse(i, moves) ==
    /\ inflight[i].kind = "select"
    /\ inflight' = RemoveAt(inflight, i)
    /\ UNCHANGED <<sessionId, gameState, animationPath, wonTimers>>
    /\ Settles("resolved")
    /\ UNCHANGED <<localVars, recording, clocked, rocket, levelVars, generatorVars, timedVars, entryVars>>

\* res.rotations ?? prev.rotations + 1: the counter of the answer unless it is absent
OrElse(carried, fallback) == IF carried = NULL THEN fallback ELSE The(carried)

\* api.rotateTile(...).then(res => ...)
RotateResponse(i, apiGrid, rotations) ==
    /\ inflight[i].kind = "rotate"
    /\ rotations = NULL => gameState.rotations < MaxCount
    /\ inflight' = RemoveAt(inflight, i)
    /\ gameState' = [gameState EXCEPT !.grid = toGrid(apiGrid),
                                      !.rotations = OrElse(rotations, gameState.rotations + 1)]
    /\ UNCHANGED <<sessionId, animationPath, wonTimers>>
    /\ Settles("resolved")
    /\ UNCHANGED <<localVars, recording, clocked, rocket, levelVars, generatorVars, timedVars, entryVars>>

\* api.flipTile(...).then(res => ...)
FlipResponse(i, apiGrid, flips) ==
    /\ inflight[i].kind = "flip"
    /\ flips = NULL => gameState.flips < MaxCount
    /\ inflight' = RemoveAt(inflight, i)
    /\ gameState' = [gameState EXCEPT !.grid = toGrid(apiGrid),
                                      !.flips = OrElse(flips, gameState.flips + 1)]
    /\ UNCHANGED <<sessionId, animationPath, wonTimers>>
    /\ Settles("resolved")
    /\ UNCHANGED <<localVars, recording, clocked, rocket, levelVars, generatorVars, timedVars, entryVars>>

\* The submit answers a run follows: a clocked run follows one more, so that the
\* timeouts of two accepted answers can be pending together.
MaxAnswers == IF clocked THEN MaxCount + 1 ELSE MaxCount

\* setTimeout(callback, res.path.length * ANIMATION_STEP_MS + ANIMATION_END_BUFFER_MS):
\* a pending WON timeout.  When the clock is kept it holds its delay and the time it
\* has waited, both in milliseconds.
Timeout(path) ==
    IF clocked
    THEN [delay |-> Len(path) * ANIMATION_STEP_MS + ANIMATION_END_BUFFER_MS, waited |-> 0]
    ELSE [delay |-> 0, waited |-> 0]

\* The submit answer handled with a test of res.valid alone.
SubmitResponse_validOnly(i, valid, path) ==
    /\ inflight[i].kind = "submit"
    /\ gameState.attempts < MaxAnswers
    /\ inflight' = RemoveAt(inflight, i)
    /\ IF valid
       THEN /\ animationPath' = OrElse(path, <<>>)
            /\ gameState' = [gameState EXCEPT !.status = "ANIMATING",
                                              !.attempts = gameState.attempts + 1]
            /\ wonTimers' = Append(wonTimers, Timeout(OrElse(path, <<>>)))
       ELSE /\ gameState' = [gameState EXCEPT !.attempts = gameState.attempts + 1]
            /\ UNCHANGED <<animationPath, wonTimers>>
    /\ UNCHANGED sessionId
    /\ Settles("resolved")
    /\ rocket' = IF valid THEN GameGridEffect(gameState', animationPath') ELSE rocket
    /\ UNCHANGED <<localVars, recording, clocked, levelVars, generatorVars, timedVars, entryVars>>

\* api.submitPath(...).then(res => ...); an empty path list is truthy in res.valid && res.path
SubmitResponse(i, valid, path) ==
    /\ inflight[i].kind = "submit"
    /\ gameState.attempts < MaxAnswers
    /\ inflight' = RemoveAt(inflight, i)
    /\ IF valid /\ path # NULL
       THEN /\ animationPath' = The(path)
            /\ gameState' = [gameState EXCEPT !.status = "ANIMATING",
                                              !.attempts = gameState.attempts + 1]
            /\ wonTimers' = Append(wonTimers, Timeout(OrElse(path, <<>>)))
       ELSE /\ gameState' = [gameState EXCEPT !.attempts = gameState.attempts + 1]
            /\ UNCHANGED <<animationPath, wonTimers>>
    /\ UNCHANGED sessionId
    /\ Settles("resolved")
    /\ rocket' = IF valid /\ path # NULL
                 THEN GameGridEffect(gameState', animationPath')
                 ELSE rocket
    /\ UNCHANGED <<localVars, recording, clocked, levelVars, generatorVars, timedVars, entryVars>>

\* Time passes, one animation step at a time, while a WON timeout is pending; a
\* timeout fires as soon as its delay has passed.
Elapse ==
    /\ clocked
    /\ wonTimers # <<>>
    /\ \A k \in DOMAIN wonTimers : wonTimers[k].waited < wonTimers[k].delay
    /\ \A k \in DOMAIN rocket.timers : rocket.timers[k].waited < rocket.timers[k].delay
    /\ wonTimers' = [k \in DOMAIN wonTimers |->
                        [wonTimers[k] EXCEPT !.waited = @ + ANIMATION_STEP_MS]]
    /\ rocket' = [rocket EXCEPT !.timers = [k \in DOMAIN rocket.timers |->
                        [rocket.timers[k] EXCEPT !.waited = @ + ANIMATION_STEP_MS]]]
    /\ UNCHANGED <<sessionId, gameState, animationPath, inflight>>
    /\ UNCHANGED settled
    /\ UNCHANGED <<localVars, recording, clocked, levelVars, generatorVars, timedVars, entryVars>>

\* The timeout scheduled on an accepted submit fires.
WonTimeoutFires(k) ==
    /\ wonTimers[k].waited >= wonTimers[k].delay
    /\ wonTimers' = RemoveAt(wonTimers, k)
    /\ animationPath' = <<>>
    /\ gameState' = [gameState EXCEPT !.status = "WON"]
    /\ UNCHANGED <<sessionId, inflight>>
    /\ UNCHANGED settled
    /\ rocket' = GameGridEffect(gameState', animationPath')
    /\ UNCHANGED <<localVars, recording, clocked, levelVars, generatorVars, timedVars, entryVars>>

WonTimeout == \E k \in DOMAIN wonTimers : WonTimeoutFires(k)

\* setTimeout(() => setRocketPos(waypoints[i]), i * ANIMATION_STEP_MS) fires: the
\* replay moves to its next waypoint.
RocketTimerFires(k) ==
    /\ rocket.timers[k].waited >= rocket.timers[k].delay
    /\ rocket' = [pos |-> Some(rocket.timers[k].at), timers |-> RemoveAt(rocket.timers, k)]
    /\ UNCHANGED <<sessionId, gameState, animationPath, inflight, wonTimers>>
    /\ UNCHANGED settled
    /\ UNCHANGED <<localVars, recording, clocked, levelVars, generatorVars, timedVars, entryVars>>

RocketStep == \E k \in DOMAIN rocket.timers : RocketTimerFires(k)

\* The answers of the remote authority, in any order of arrival.
ApiCounters == {Some(k) : k \in 0..MaxCount} \cup {NULL}
CallRejected == \E i \in DOMAIN inflight : Rejected(i)
StartResolved == \E i \in DOMAIN inflight, sid \in SessionIds, g \in ApiGrids : StartResponse(i, sid, g)
SelectResolved == \E i \in DOMAIN inflight, n \in ApiCounters : SelectResponse(i, n)
RotateResolved == \E i \in DOMAIN inflight, g \in ApiGrids, n \in ApiCounters : RotateResponse(i, g, n)
FlipResolved == \E i \in DOMAIN inflight, g \in ApiGrids, n \in ApiCounters : FlipResponse(i, g, n)
SubmitResolved ==
    \E i \in DOMAIN inflight, valid \in BOOLEAN, path \in {Some(q) : q \in ApiPaths} \cup {NULL} :
        SubmitResponse(i, valid, path)


(***************************************************************************)
(* Expression generator of BubbleSort.tsx                                  *)
(***************************************************************************)
\* NULL, Some, The: see the remote-backed engine.
\* randomInt(min, max): Math.floor(Math.random() * (max - min + 1)) + min with
\* Math.random() in [0, 1): every integer of min..max when max >= min; min itself
\* when the factor is zero; and min + (max - min + 1) .. min when it is negative.
randomInt(min, max) ==
    LET n == max - min + 1 IN
    IF n > 0 THEN min..max ELSE IF n = 0 THEN {min} ELSE (min + n)..min

\* The template literal `${a}${op}${b}`: the two operands in decimal around the sign.
Display(a, op, b) == <<a, op, b>>

\* case '+' and default
Addition(maxNum) ==
    { [expression |-> Display(a, "+", b), value |-> a + b] :
        a \in randomInt(1, maxNum), b \in randomInt(1, maxNum) }

\* Subtraction with a subtrahend drawn up to maxNum instead of up to the minuend.
Subtraction_anySubtrahend(maxNum) ==
    UNION { { [expression |-> Display(a, "-", b), value |-> a - b] : b \in randomInt(0, maxNum) } :
            a \in randomInt(2, maxNum) }

\* case '-'
Subtraction(maxNum) ==
    UNION { { [expression |-> Display(a, "-", b), value |-> a - b] : b \in randomInt(0, a) } :
            a \in randomInt(2, maxNum) }

\* case '×'
Multiplication(maxNum) ==
    { [expression |-> Display(a, "*", b), value |-> a * b] :
        a \in randomInt(1, Min(maxNum, 12)), b \in randomInt(1, Min(maxNum, 9)) }

\* Division with the dividend drawn on its own and the quotient rounded down.
Division_rounded(maxNum) ==
    { [expression |-> Display(a, "/", b), value |-> a \div b] :
        a \in randomInt(1, Min(maxNum, 12)), b \in randomInt(2, Min(maxNum, 10)) }

\* case '÷': the divisor and the quotient are drawn, the dividend is their product
Division(maxNum) ==
    { [expression |-> Display(b * value, "/", b), value |-> value] :
        b \in randomInt(2, Min(maxNum, 10)), value \in randomInt(1, Min(maxNum, 12)) }

\* generateExpression(operators, maxNum): what it can return.  The operator is
\* operators[Math.floor(Math.random() * operators.length)]; "*" and "/" stand for the
\* signs '×' and '÷' of the source.
generateExpression(operators, maxNum) ==
    UNION { CASE operators[k] = "+" -> Addition(maxNum)
              [] operators[k] = "-" -> Subtraction(maxNum)
              [] operators[k] = "*" -> Multiplication(maxNum)
              [] operators[k] = "/" -> Division(maxNum)
              [] OTHER -> Addition(maxNum)
            : k \in { j + 1 : j \in randomInt(0, Len(operators) - 1) } }

\* One call of generateExpression for an entry of the difficulty table.
ExpressionDrawn ==
    /\ gen.pc = "idle"
    /\ gen.expr = NULL
    /\ \E d \in DOMAIN DIFFICULTY_TABLE :
          \E e \in generateExpression(DIFFICULTY_TABLE[d].operators, DIFFICULTY_TABLE[d].maxNumber) :
             gen' = [gen EXCEPT !.config = Some(DIFFICULTY_TABLE[d]), !.expr = Some(e)]
    /\ UNCHANGED <<localVars, remoteVars, timedVars, entryVars>>

\* startRound(roundNum) looks its configuration up: const cfg = DIFFICULTY_TABLE[...].
\* Nothing confines the argument to the table or to TOTAL_QUESTIONS.
ConfigLookup ==
    /\ gen.pc = "idle"
    /\ gen.config = NULL
    /\ \E roundNum \in 1..MaxRound :
          gen' = [gen EXCEPT !.config = Some(config(roundNum)), !.roundNum = roundNum]
    /\ UNCHANGED <<localVars, remoteVars, timedVars, entryVars>>

\* generateBubbles(cfg, roundNum) draws its first expression with the operators and
\* the operand limit of the configuration looked up.
FirstExpression ==
    /\ gen.pc = "idle"
    /\ gen.config # NULL
    /\ gen.expr = NULL
    /\ \E e \in generateExpression(The(gen.config).operators, The(gen.config).maxNumber) :
          gen' = [gen EXCEPT !.expr = Some(e)]
    /\ UNCHANGED <<localVars, remoteVars, timedVars, entryVars>>

\* The configurations generateBubbles is followed with: the operator lists of the
\* difficulty table, the operand limit scaled down.
GeneratorConfigs ==
    { [DIFFICULTY_TABLE[d] EXCEPT !.maxNumber = MaxNumber] : d \in DOMAIN DIFFICULTY_TABLE }

SCATTER_POSITIONS_length == 4

\* generateBubbles(config, round) is entered: the locals before the first slot.
generateBubblesCall ==
    /\ gen.pc = "idle"
    /\ gen.expr = NULL
    /\ \E cfg \in GeneratorConfigs, roundNum \in 1..TOTAL_QUESTIONS :
          gen' = [gen EXCEPT !.config = Some(cfg),
                             !.layout = (roundNum - 1) % SCATTER_POSITIONS_length,
                             !.bubbles = <<>>, !.usedValues = {}, !.i = 0, !.attempts = 0,
                             !.pc = "draw"]
    /\ UNCHANGED <<localVars, remoteVars, timedVars, entryVars>>

\* do { expr = generateExpression(...); attempts++; }
DrawAttempt ==
    /\ gen.pc = "draw"
    /\ \E e \in generateExpression(The(gen.config).operators, The(gen.config).maxNumber) :
          gen' = [gen EXCEPT !.expr = Some(e),
                             !.attempts = gen.attempts + 1,
                             !.repeats = IF e.value \in gen.usedValues
                                         THEN gen.repeats + 1 ELSE gen.repeats,
                             !.pc = "test"]
    /\ UNCHANGED <<localVars, remoteVars, timedVars, entryVars>>

\* The retry test giving up one attempt early.
TryAgain_oneShort(value, used, n) == value \in used /\ n < RetryCap - 1

\* ... while (usedValues.has(expr.value) && attempts < 50)
TryAgain(value, used, n) == value \in used /\ n < RetryCap

\* The loop test sends the slot back to another attempt.
Retry ==
    /\ gen.pc = "test"
    /\ TryAgain(The(gen.expr).value, gen.usedValues, gen.attempts)
    /\ gen' = [gen EXCEPT !.pc = "draw"]
    /\ UNCHANGED <<localVars, remoteVars, timedVars, entryVars>>

\* The loop test lets the value through: usedValues.add, bubbles.push, next slot (whose
\* attempts start at 0), and after the last slot the list is returned.
PushBubble ==
    /\ gen.pc = "test"
    /\ ~TryAgain(The(gen.expr).value, gen.usedValues, gen.attempts)
    /\ gen' = [gen EXCEPT
                 !.usedValues = gen.usedValues \cup {The(gen.expr).value},
                 !.bubbles = Append(gen.bubbles,
                                    [id |-> gen.i, expression |-> The(gen.expr).expression,
                                     value |-> The(gen.expr).value, selected |-> FALSE,
                                     offsets |-> <<gen.layout, gen.i>>]),
                 !.exhausted = IF gen.repeats = RetryCap
                               THEN gen.exhausted \cup {gen.i} ELSE gen.exhausted,
                 !.repeats = 0,
                 !.attempts = 0,
                 !.i = gen.i + 1,
                 !.pc = IF gen.i + 1 < The(gen.config).bubbleCount THEN "draw" ELSE "done"]
    /\ UNCHANGED <<localVars, remoteVars, timedVars, entryVars>>

(***************************************************************************)
(* PipePuzzle: the levels around PathfinderGame                            *)
(***************************************************************************)
\* The calls whose continuation tests a flag that the teardown sets: the start effect
\* declares `cancelled` and its cleanup sets it; no other call has one.
Cancellable(kind) == kind = "start"

\* What an instance leaves pending when it is torn down: its outstanding calls and its
\* WON timeouts, none of which is cancelled.
Orphaned == [i \in DOMAIN inflight |-> inflight[i].kind] \o [k \in DOMAIN wonTimers |-> "timeout"]

\* JSON.stringify and JSON.parse on the values that are stored: a list becomes the
\* text of its elements in order, an object the text of its members in the order
\* they were written, a number or a boolean its literal; parsing reads them back.
\* A text is modelled as the sequence of its parts.
LevelResultKeys == <<"level", "success", "moves", "rotations", "flips", "time">>
EntryKeys == <<"timestamp", "scores">>
Literal(key, v) == IF key = "success" THEN <<"bool", v>> ELSE <<"num", v>>
StringifyObject(keys, members) ==
    <<"{">> \o [k \in DOMAIN keys |-> <<keys[k], members[keys[k]]>>] \o <<"}">>
StringifyScores(scores) ==
    [i \in DOMAIN scores |->
        StringifyObject(LevelResultKeys,
                        [key \in DOMAIN scores[i] |-> Literal(key, scores[i][key])])]
StringifyEntries(entries) ==
    [i \in DOMAIN entries |->
        StringifyObject(EntryKeys,
                        [timestamp |-> <<"str", entries[i].timestamp>>,
                         scores |-> StringifyScores(entries[i].scores)])]
Members(text) == SubSeq(text, 2, Len(text) - 1)
ParseScores(text) ==
    [i \in DOMAIN text |->
        [key \in {Members(text[i])[k][1] : k \in DOMAIN Members(text[i])} |->
            (CHOOSE m \in {Members(text[i])[k] : k \in DOMAIN Members(text[i])} :
                m[1] = key)[2][2]]]
ParseEntries(text) ==
    [i \in DOMAIN text |->
        [key \in {Members(text[i])[k][1] : k \in DOMAIN Members(text[i])} |->
            LET m == CHOOSE n \in {Members(text[i])[k] : k \in DOMAIN Members(text[i])} :
                        n[1] = key
            IN IF key = "scores" THEN ParseScores(m[2]) ELSE m[2][2]]]

\* new Date().toISOString(): the text of the instant.
toISOString(now) == <<"ISO", now>>

\* localStorage.getItem('assessment_results') || '[]'
getItem_or_empty == IF levels.storage = NULL THEN <<>> ELSE The(levels.storage)

\* What the candidate's levels can report: the counters and the seconds used.
StatsInputs ==
    { [moves |-> m, rotations |-> m, flips |-> 0, time |-> t] :
        m \in 0..MaxCount, t \in {0, GAME_DURATION} }
Instants == {"09:00", "09:05"}

\* Items an earlier run of the flow can have left in local storage.
StoredItems ==
    { NULL,
      Some(StringifyEntries(<< [timestamp |-> toISOString("08:00"),
                                scores |-> << [level |-> 1, success |-> FALSE, moves |-> 0,
                                               rotations |-> 0, flips |-> 0,
                                               time |-> GAME_DURATION] >>] >>)) }

\* handleLevelComplete(success, stats) on the state of PipePuzzle: the result is
\* appended; on the last level the whole list goes out with api.saveResults and the
\* step becomes RESULTS, otherwise the next level is shown.
LevelComplete(success, stats) ==
    LET newResults == Append(levels.results,
                             [level |-> levels.currentLevel + 1, success |-> success,
                              moves |-> stats.moves, rotations |-> stats.rotations,
                              flips |-> stats.flips, time |-> stats.time])
        last == levels.currentLevel >= LevelCount - 1
    IN [levels EXCEPT
          !.results = IF levels.flow THEN newResults ELSE @,
          !.saves = IF levels.flow /\ last THEN Append(@, newResults) ELSE @,
          !.currentLevel = IF last THEN @ ELSE @ + 1,
          !.step = IF last THEN "RESULTS" ELSE @]

\* PathfinderGame calls onComplete(success, stats), with the game left out: whatever
\* level is on display reports some outcome.
onComplete ==
    /\ levels.step = "GAME"
    /\ \E success \in BOOLEAN, stats \in StatsInputs :
          levels' = LevelComplete(success, stats)
    /\ UNCHANGED <<sessionId, gameState, animationPath, inflight, wonTimers, settled>>
    /\ UNCHANGED <<localVars, recording, clocked, rocket, generatorVars, timedVars, entryVars>>

\* The results call is answered: saveResults has no .then, nothing happens.
SaveResolved ==
    /\ \E i \in DOMAIN levels.saves :
          levels' = [levels EXCEPT !.saves = RemoveAt(@, i)]
    /\ UNCHANGED <<sessionId, gameState, animationPath, inflight, wonTimers, settled>>
    /\ UNCHANGED <<localVars, recording, clocked, rocket, generatorVars, timedVars, entryVars>>

\* The fallback replacing the stored list by the new entry alone.
Fallback_overwrite(scores, now) ==
    Some(StringifyEntries(<< [timestamp |-> toISOString(now), scores |-> scores] >>))

\* .catch(() => { ... }): the stored list is parsed, the entry is appended and the
\* list is stored again.
Fallback(scores, now) ==
    Some(StringifyEntries(Append(ParseEntries(getItem_or_empty),
                                 [timestamp |-> toISOString(now), scores |-> scores])))

\* The results call is rejected.
SaveRejected ==
    /\ \E i \in DOMAIN levels.saves, now \in Instants :
          levels' = [levels EXCEPT !.saves = RemoveAt(@, i),
                                   !.storage = Fallback(levels.saves[i], now)]
    /\ UNCHANGED <<sessionId, gameState, animationPath, inflight, wonTimers, settled>>
    /\ UNCHANGED <<localVars, recording, clocked, rocket, generatorVars, timedVars, entryVars>>

\* The "Next Question" button of the WON or LOST overlay: onComplete, that is
\* handleLevelComplete.  A further level remounts PathfinderGame under a new key: a
\* fresh instance with its own state, whose mount effect issues its start call.  After
\* the last level the RESULTS step replaces the game.
stats ==
    [moves |-> gameState.moves, rotations |-> gameState.rotations,
     flips |-> gameState.flips, time |-> GAME_DURATION - gameState.timeRemaining]

handleLevelComplete ==
    /\ levels.step = "GAME"
    /\ gameState.status \in {"WON", "LOST"}
    /\ wonTimers' = <<>>
    /\ IF levels.currentLevel < LevelCount - 1
       THEN /\ levels' = [LevelComplete(gameState.status = "WON", stats)
                            EXCEPT !.orphans = levels.orphans \o Orphaned]
            /\ sessionId' = ""
            /\ gameState' = [grid |-> <<>>, start |-> EMPTY_ENTRY, end |-> EMPTY_ENTRY,
                             status |-> "PLAYING", selectedTile |-> NULL,
                             timeRemaining |-> GAME_DURATION, attempts |-> 0, moves |-> 0,
                             rotations |-> 0, flips |-> 0]
            /\ animationPath' = <<>>
            /\ inflight' = << [kind |-> "start", sid |-> "", pos |-> NULL, before |-> NULL] >>
       ELSE /\ levels' = [LevelComplete(gameState.status = "WON", stats)
                            EXCEPT !.orphans = levels.orphans \o Orphaned]
            /\ inflight' = <<>>
            /\ UNCHANGED <<sessionId, gameState, animationPath>>
    /\ rocket' = NoRocket
    /\ UNCHANGED settled
    /\ UNCHANGED <<localVars, recording, clocked, generatorVars, timedVars, entryVars>>

\* A call of a torn-down instance settles.  A rejection is logged.  The start
\* continuation returns at `if (cancelled)`.  The select call has no continuation.  The
\* rotate, flip and submit continuations call the state setters of the torn-down
\* instance, which React drops; an accepted submit also schedules its WON timeout.
OrphanSettles(i, outcome) ==
    /\ levels.orphans[i] # "timeout"
    /\ outcome = "accepted" => levels.orphans[i] = "submit"
    /\ levels' = [levels EXCEPT
                    !.orphans = IF outcome = "accepted"
                                THEN [levels.orphans EXCEPT ![i] = "timeout"]
                                ELSE RemoveAt(levels.orphans, i),
                    !.lateUpdate = IF /\ outcome # "rejected"
                                      /\ levels.orphans[i] \in {"rotate", "flip", "submit"}
                                   THEN TRUE ELSE levels.lateUpdate]
    /\ UNCHANGED <<sessionId, gameState, animationPath, inflight, wonTimers>>
    /\ UNCHANGED settled
    /\ UNCHANGED <<localVars, recording, clocked, rocket, generatorVars, timedVars, entryVars>>

\* A WON timeout of a torn-down instance fires: setAnimationPath([]) and setGameState
\* of that instance, which React drops.
OrphanTimeout(i) ==
    /\ levels.orphans[i] = "timeout"
    /\ levels' = [levels EXCEPT !.orphans = RemoveAt(levels.orphans, i), !.lateUpdate = TRUE]
    /\ UNCHANGED <<sessionId, gameState, animationPath, inflight, wonTimers>>
    /\ UNCHANGED settled
    /\ UNCHANGED <<localVars, recording, clocked, rocket, generatorVars, timedVars, entryVars>>

OrphanAnswered ==
    \E i \in DOMAIN levels.orphans, outcome \in {"rejected", "resolved", "accepted"} :
        OrphanSettles(i, outcome)
OrphanTimeoutFires == \E i \in DOMAIN levels.orphans : OrphanTimeout(i)

LevelsSetup(flow, item) ==
    [step |-> "GAME", currentLevel |-> 0, orphans |-> <<>>, lateUpdate |-> FALSE,
     flow |-> flow, results |-> <<>>, saves |-> <<>>, storage |-> item]

(***************************************************************************)
(* Entry gating: App of main.tsx, from the welcome page through the system *)
(* checks to the launcher and the two sections.                            *)
(***************************************************************************)
\* const allPassed = systemCheck === 'passed' && videoCheck === 'passed' && ...
allPassed(a) ==
    /\ a.systemCheck = "passed"
    /\ a.videoCheck = "passed"
    /\ a.audioCheck = "passed"
    /\ a.secureBrowserCheck = "passed"

\* The disabled prop of the Run button of SystemChecksPage.
Checking(a) ==
    \/ a.systemCheck = "checking"
    \/ a.videoCheck = "checking"
    \/ a.audioCheck = "checking"
    \/ a.secureBrowserCheck = "checking"

\* App after construction.  runs holds the calls of runChecks that have not returned,
\* each at the await it is suspended on; started counts the calls; stopped holds the
\* tracks stopped by track.stop(); recorders counts the MediaRecorders started.
AppSetup ==
    [screen |-> "WELCOME", mediaStream |-> NULL, isLoading |-> FALSE,
     systemCheck |-> "idle", videoCheck |-> "idle", audioCheck |-> "idle",
     secureBrowserCheck |-> "idle",
     runs |-> <<>>, started |-> 0, stopped |-> {}, recorders |-> 0]

EntryFrame == UNCHANGED <<localVars, remoteVars, generatorVars, timedVars>>

handleTakeTestClick ==
    /\ app.screen = "WELCOME"
    /\ app' = [app EXCEPT !.screen = "SYSTEM_CHECKS"]
    /\ EntryFrame

\* runChecks called whatever the checks show.
runChecks_whileChecking ==
    /\ app.screen = "SYSTEM_CHECKS"
    /\ ~allPassed(app)
    /\ app.started < MaxRuns
    /\ app' = [app EXCEPT !.isLoading = TRUE, !.videoCheck = "checking",
                          !.audioCheck = "idle", !.systemCheck = "idle",
                          !.started = @ + 1,
                          !.runs = Append(@, [at |-> "video", id |-> app.started + 1])]
    /\ EntryFrame

\* The Run button, rendered while not allPassed and enabled while no check is
\* 'checking', calls runChecks, which runs up to its first await.
runChecks ==
    /\ app.screen = "SYSTEM_CHECKS"
    /\ ~allPassed(app)
    /\ ~Checking(app)
    /\ app.started < MaxRuns
    /\ app' = [app EXCEPT !.isLoading = TRUE, !.videoCheck = "checking",
                          !.audioCheck = "idle", !.systemCheck = "idle",
                          !.started = @ + 1,
                          !.runs = Append(@, [at |-> "video", id |-> app.started + 1])]
    /\ EntryFrame

\* A failed check of run i: the check is marked, the tracks obtained so far are
\* stopped, the loading flag is dropped and the run returns.
CheckFailed(a, i, check, kinds) ==
    [a EXCEPT ![check] = "failed",
              !.stopped = @ \cup {<<kind, a.runs[i].id>> : kind \in kinds},
              !.isLoading = FALSE,
              !.runs = RemoveAt(@, i)]

\* The end of a run whose four checks passed: the combined stream is stored.
ChecksPassed(a, i) ==
    [a EXCEPT !.secureBrowserCheck = "passed",
              !.mediaStream = Some([video |-> a.runs[i].id, audio |-> a.runs[i].id]),
              !.isLoading = FALSE,
              !.runs = RemoveAt(@, i)]

\* 1. getUserMedia({ video }) settles.
VideoSettled(i, granted) ==
    /\ app.runs[i].at = "video"
    /\ app' = IF granted
              THEN [app EXCEPT !.videoCheck = "passed", !.audioCheck = "checking",
                               !.runs[i].at = "audio"]
              ELSE CheckFailed(app, i, "videoCheck", {})
    /\ EntryFrame

\* 2. getUserMedia({ audio }) settles.
AudioSettled(i, granted) ==
    /\ app.runs[i].at = "audio"
    /\ app' = IF granted
              THEN [app EXCEPT !.audioCheck = "passed", !.systemCheck = "checking",
                               !.runs[i].at = "system"]
              ELSE CheckFailed(app, i, "audioCheck", {"video"})
    /\ EntryFrame

\* 3. The 800 ms of the system check are over.
SystemChecked(i, hasMediaDevices) ==
    /\ app.runs[i].at = "system"
    /\ app' = IF hasMediaDevices
              THEN [app EXCEPT !.systemCheck = "passed", !.secureBrowserCheck = "checking",
                               !.runs[i].at = "confirm"]
              ELSE CheckFailed(app, i, "systemCheck", {"video", "audio"})
    /\ EntryFrame

\* 4. The 100 ms are over and window.confirm is answered; requestFullscreen is
\* awaited where the browser has it.
ConfirmAnswered(i, allowFullscreen, requestFullscreen) ==
    /\ app.runs[i].at = "confirm"
    /\ app' = IF ~allowFullscreen
              THEN CheckFailed(app, i, "secureBrowserCheck", {"video", "audio"})
              ELSE IF requestFullscreen
                   THEN [app EXCEPT !.runs[i].at = "fullscreen"]
                   ELSE ChecksPassed(app, i)
    /\ EntryFrame

\* requestFullscreen() settles.
FullscreenSettled(i, granted) ==
    /\ app.runs[i].at = "fullscreen"
    /\ app' = IF granted
              THEN ChecksPassed(app, i)
              ELSE CheckFailed(app, i, "secureBrowserCheck", {"video", "audio"})
    /\ EntryFrame

\* The Start Assessment button, enabled when allPassed and not loading.
proceedToAssessment ==
    /\ app.screen = "SYSTEM_CHECKS"
    /\ allPassed(app) /\ ~app.isLoading
    /\ app' = IF allPassed(app) /\ app.mediaStream # NULL
              THEN [app EXCEPT !.recorders = @ + 1, !.screen = "LAUNCHER"]
              ELSE app
    /\ EntryFrame

\* A section row of the launcher.
SectionClick(section) ==
    /\ app.screen = "LAUNCHER"
    /\ app' = [app EXCEPT !.screen = section]
    /\ EntryFrame

\* The Back button of a section.
goToLauncher ==
    /\ app.screen \in {"PIPE_PUZZLE", "BUBBLE_SORT"}
    /\ app' = [app EXCEPT !.screen = "LAUNCHER"]
    /\ EntryFrame

VideoAnswered == \E i \in DOMAIN app.runs, granted \in BOOLEAN : VideoSettled(i, granted)
AudioAnswered == \E i \in DOMAIN app.runs, granted \in BOOLEAN : AudioSettled(i, granted)
SystemAnswered == \E i \in DOMAIN app.runs, has \in BOOLEAN : SystemChecked(i, has)
ConfirmClosed == \E i \in DOMAIN app.runs, allow \in BOOLEAN, has \in BOOLEAN : ConfirmAnswered(i, allow, has)
FullscreenAnswered == \E i \in DOMAIN app.runs, ok \in BOOLEAN : FullscreenSettled(i, ok)
SectionChosen == \E section \in {"PIPE_PUZZLE", "BUBBLE_SORT"} : SectionClick(section)

Setup(history, clock, ship, flow, item) ==
    /\ recording = history
    /\ clocked = clock
    /\ settled = "none"
    /\ screen = "INSTRUCTIONS"
    /\ round = 1
    /\ sessionTime = SESSION_DURATION
    /\ roundTime = ROUND_TIME
    /\ bubbles = <<>>
    /\ selectionOrder = 0
    /\ roundResults = <<>>
    /\ correctCount = 0
    /\ wrongCount = 0
    /\ totalScore = 0
    /\ processing = FALSE
    /\ roundEnded = FALSE
    /\ timeouts = <<>>
    /\ entered = 0
    \* PathfinderGame after its mount effects: no session yet, the start call issued
    /\ sessionId = ""
    /\ gameState = [grid |-> <<>>, start |-> EMPTY_ENTRY, end |-> EMPTY_ENTRY,
                    status |-> "PLAYING", selectedTile |-> NULL,
                    timeRemaining |-> GAME_DURATION, attempts |-> 0, moves |-> 0,
                    rotations |-> 0, flips |-> 0]
    /\ animationPath = <<>>
    /\ inflight = << [kind |-> "start", sid |-> "", pos |-> NULL, before |-> NULL] >>
    /\ wonTimers = <<>>
    /\ rocket = NoRocket
    \* PipePuzzle on its GAME step, first level
    /\ levels = LevelsSetup(flow, item)
    /\ timed = TimedSetup(ship)
    /\ app = AppSetup
    \* no generateBubbles call in progress
    /\ gen = [pc |-> "idle", config |-> NULL, layout |-> 0, i |-> 0, attempts |-> 0,
              expr |-> NULL, usedValues |-> {}, bubbles |-> <<>>, repeats |-> 0,
              exhausted |-> {}, roundNum |-> 0]

Init == Setup(FALSE, FALSE, FALSE, FALSE, NULL)

LocalNext ==
    \/ handleStart
    \/ SessionTick
    \/ RoundTick
    \/ BubbleClick
    \/ TimeoutFire
    \/ handleSubmit

LocalSpec == Init /\ [][LocalNext]_vars

\* The local engine on a clock, the tunables at the bounds.
TimedNext ==
    \/ TimedStart
    \/ TimedElapse
    \/ TimedSessionTick
    \/ TimedRoundTick
    \/ TimedLastClick
    \/ TimedTimeoutFire
    \/ TimedSubmit

\* ... with time passing and every timer that is due running.
TimedFairSpec ==
    /\ Init
    /\ [][TimedNext]_vars
    /\ WF_vars(TimedElapse)
    /\ WF_vars(TimedSessionTick)
    /\ WF_vars(TimedRoundTick)
    /\ WF_vars(TimedTimeoutFire)

\* ... with the shipped tunables.
InitShipped == Setup(FALSE, FALSE, TRUE, FALSE, NULL)
ShippedSpec == InitShipped /\ [][TimedNext]_vars

RemoteNext ==
    \/ CountdownTick
    \/ TileClick
    \/ handleRotate
    \/ handleFlip
    \/ pp_handleSubmit
    \/ CallRejected
    \/ StartResolved
    \/ SelectResolved
    \/ RotateResolved
    \/ FlipResolved
    \/ SubmitResolved
    \/ WonTimeout

RemoteSpec == Init /\ [][RemoteNext]_vars

\* The remote-backed engine with the history of its calls recorded.
InitRecording == Setup(TRUE, FALSE, FALSE, FALSE, NULL)
RemoteHistorySpec == InitRecording /\ [][RemoteNext]_vars

\* The remote-backed engine with the clock of its WON timeouts kept.
InitClocked == Setup(FALSE, TRUE, FALSE, FALSE, NULL)
ClockedNext ==
    \/ RemoteNext
    \/ Elapse
    \/ RocketStep
RemoteClockedSpec == InitClocked /\ [][ClockedNext]_vars

\* The remote-backed engine across the levels of PipePuzzle.
LevelsNext ==
    \/ RemoteNext
    \/ handleLevelComplete
    \/ OrphanAnswered
    \/ OrphanTimeoutFires
RemoteLevelsSpec == Init /\ [][LevelsNext]_vars

\* The assessment flow of PipePuzzle with the results call and local storage, the
\* game reduced to its onComplete calls.
InitFlow == \E item \in StoredItems : Setup(FALSE, FALSE, FALSE, TRUE, item)
FlowNext ==
    \/ onComplete
    \/ SaveResolved
    \/ SaveRejected
FlowSpec == InitFlow /\ [][FlowNext]_vars

\* App of main.tsx alone.
EntryNext ==
    \/ handleTakeTestClick
    \/ runChecks
    \/ VideoAnswered
    \/ AudioAnswered
    \/ SystemAnswered
    \/ ConfirmClosed
    \/ FullscreenAnswered
    \/ proceedToAssessment
    \/ SectionChosen
    \/ goToLauncher
EntrySpec == Init /\ [][EntryNext]_vars

\* The expression generator alone, over the difficulty table.
ExpressionNext == ExpressionDrawn
ExpressionSpec == Init /\ [][ExpressionNext]_vars

\* generateBubbles, statement by statement.
GeneratorNext ==
    \/ generateBubblesCall
    \/ DrawAttempt
    \/ Retry
    \/ PushBubble
GeneratorSpec == Init /\ [][GeneratorNext]_vars

\* The difficulty lookup of startRound, over round numbers up to MaxRound.
LookupNext ==
    \/ ConfigLookup
    \/ FirstExpression
LookupSpec == Init /\ [][LookupNext]_vars

(***************************************************************************)
(* Properties of the local engine (checked under LocalSpec)                *)
(***************************************************************************)
Last(s) == s[Len(s)]
AppendsOne(old, new) == Len(new) = Len(old) + 1 /\ SubSeq(new, 1, Len(old)) = old

\* The settle-delay timeout of a round that the round countdown has already ended:
\* the list holds a not-completed result of the round its closure names.
LostToExpiry ==
    /\ timeouts # <<>>
    /\ \E k \in DOMAIN roundResults :
          /\ roundResults[k].round = Head(timeouts).c.round
          /\ ~roundResults[k].completed

\* C1: when the round countdown expires while the settle-delay completion of the same
\* round is pending, the round gets one RoundResult and one advance: the completion
\* that fires afterwards is the losing event and changes nothing.
C1_LatchOneShot ==
    [][ (TimeoutFire /\ LostToExpiry) =>
            UNCHANGED <<screen, round, roundTime, bubbles, roundResults, totalScore>> ]_vars

\* C2: on the COMPLETE screen the RoundResult list is as long as the number of rounds
\* entered in the session, the round active at session expiry included.
C2_ResultPerRoundEntered ==
    screen = "COMPLETE" => Len(roundResults) = entered

\* C3: once the screen is COMPLETE it stays COMPLETE.
C3_CompleteIsTerminal ==
    [][ screen = "COMPLETE" => screen' = "COMPLETE" ]_vars

\* The screen was completed by an early submit (the latch is open and the session
\* clock has time left) and the last result is a completed one although the stimulus
\* set on display is not consumed: a settle-delay completion fired after COMPLETE.
C3_Witness ==
    /\ screen = "COMPLETE"
    /\ sessionTime > 0
    /\ ~roundEnded
    /\ roundResults # <<>>
    /\ Last(roundResults).completed
    /\ ~AllSelected(bubbles)

\* C4: after COMPLETE no event changes the round index, the RoundResult list, the
\* total score, the stimulus set or either countdown.
C4_CompleteFreezesState ==
    [][ screen = "COMPLETE" =>
            UNCHANGED <<round, roundResults, totalScore, bubbles, sessionTime, roundTime>> ]_vars

\* C7: while PLAYING the session countdown never increases, a round start leaves it
\* alone, and the step that takes it to zero makes the screen COMPLETE.
C7_SessionCountdown ==
    [][ /\ screen = "PLAYING" => sessionTime' <= sessionTime
        /\ (screen = "PLAYING" /\ entered' # entered) => sessionTime' = sessionTime
        /\ (sessionTime # 0 /\ sessionTime' = 0) => screen' = "COMPLETE" ]_vars

\* The session clock ran out in the middle of a round: stimuli unconsumed, round
\* countdown still running, nothing recorded.
C7_Witness ==
    /\ screen = "COMPLETE"
    /\ sessionTime = 0
    /\ roundTime > 0
    /\ bubbles # <<>>
    /\ ~AllSelected(bubbles)
    /\ roundResults = <<>>

\* C8: once the session countdown is at zero the round index does not increase and no
\* new stimulus set is generated.
C8_SessionEndPreempts ==
    [][ (screen # "INSTRUCTIONS" /\ sessionTime = 0) =>
            (round' = round /\ bubbles' = bubbles /\ entered' = entered) ]_vars

\* C9: the round countdown reaching zero with a stimulus unconsumed appends exactly one
\* RoundResult, not completed, for the current round, and then the round index goes up
\* by one (below the configured total) or the screen becomes COMPLETE (last round).
C9_RoundTimeout ==
    [][ (RoundTick /\ roundTime <= 1 /\ ~AllSelected(bubbles)) =>
            /\ AppendsOne(roundResults, roundResults')
            /\ Last(roundResults').round = round
            /\ ~Last(roundResults').completed
            /\ IF round < TOTAL_QUESTIONS
               THEN round' = round + 1 /\ screen' = "PLAYING"
               ELSE round' = round /\ screen' = "COMPLETE" ]_vars

\* Round 1 ran out with stimuli unconsumed and round 2 is being played.
C9_Witness ==
    /\ screen = "PLAYING"
    /\ round = 2
    /\ Len(roundResults) = 1
    /\ roundResults[1].round = 1
    /\ ~roundResults[1].completed
    /\ roundResults[1].correct < bubbleCount

\* The screen was completed by an early submit: endRound completes with the latch
\* closed and the session timer with the session clock at zero.
CompletedBySubmit ==
    screen = "COMPLETE" /\ sessionTime > 0 /\ ~roundEnded

\* C10: an early submit appends exactly one RoundResult for the current round, completed
\* iff every stimulus is consumed, and sets the screen to COMPLETE; neither it nor
\* anything after it advances the round index or appends a further RoundResult.
C10_SubmitEarly ==
    [][ /\ handleSubmit =>
            /\ AppendsOne(roundResults, roundResults')
            /\ Last(roundResults').round = round
            /\ Last(roundResults').completed = AllSelected(bubbles)
            /\ screen' = "COMPLETE"
            /\ round' = round
        /\ CompletedBySubmit => (round' = round /\ roundResults' = roundResults) ]_vars

(***************************************************************************)
(* Properties of the remote-backed engine (checked under RemoteSpec)       *)
(***************************************************************************)
\* C5: once the status is WON or LOST it never changes again.
C5_TerminalStatusIsFinal ==
    [][ gameState.status \in {"WON", "LOST"} => gameState'.status = gameState.status ]_vars

\* C6 (checked under RemoteHistorySpec): when a select, rotate or flip call is
\* rejected, the local state is the one it was immediately before the action was
\* invoked.
C6_RejectedCallNoChange ==
    [][ \A i \in DOMAIN inflight :
            (inflight[i].kind \in {"select", "rotate", "flip"} /\ Rejected(i))
                => gameState' = The(inflight[i].before) ]_vars
(***************************************************************************)
(* The scorer of the local engine (checked under LocalSpec)                *)
(***************************************************************************)
\* The bubble with this id, and whether it is on display and not consumed.
BubbleOf(id) == bubbles[CHOOSE i \in DOMAIN bubbles : bubbles[i].id = id]
Unconsumed(id) == \E i \in DOMAIN bubbles : bubbles[i].id = id /\ ~bubbles[i].selected

\* The bubble has the minimum value among the unconsumed ones and, among those that
\* share that value, the lowest id.
MinimumRemaining(id) ==
    \A j \in DOMAIN bubbles :
        ~bubbles[j].selected =>
            \/ BubbleOf(id).value < bubbles[j].value
            \/ (BubbleOf(id).value = bubbles[j].value /\ id <= bubbles[j].id)

\* A step that handles the selection of an unconsumed bubble during PLAYING.
Selects(id) ==
    /\ screen = "PLAYING"
    /\ ~processing
    /\ Unconsumed(id)
    /\ handleBubbleClick(id)

\* The step counted the selection as correct and consumed the bubble.
Accepted(id) ==
    /\ correctCount' = correctCount + 1
    /\ \E i \in DOMAIN bubbles' : bubbles'[i].id = id /\ bubbles'[i].selected

\* C11: the selection of an unconsumed bubble during PLAYING is accepted as correct
\* exactly when the bubble has the minimum value among the unconsumed bubbles and,
\* among the unconsumed bubbles of that value, the lowest id.
C11_ScorerAcceptsMinimum ==
    [][ \A id \in 0..(bubbleCount - 1) :
            Selects(id) => (Accepted(id) <=> MinimumRemaining(id)) ]_vars

\* Two bubbles share the minimum value; the one generated first is consumed, the
\* other is not, and one selection of the round was counted as wrong.
C11_Witness ==
    /\ screen = "PLAYING"
    /\ correctCount = 1
    /\ wrongCount = 1
    /\ \E i, j \in DOMAIN bubbles :
          /\ i < j
          /\ bubbles[i].value = bubbles[j].value
          /\ \A k \in DOMAIN bubbles : bubbles[i].value <= bubbles[k].value
          /\ bubbles[i].selected
          /\ ~bubbles[j].selected

\* The values on display are pairwise distinct.
DistinctValues ==
    \A i, j \in DOMAIN bubbles : i # j => bubbles[i].value # bubbles[j].value

\* A step that consumes the last bubble of a round of pairwise-distinct values in
\* which no selection was wrong: the bubbles were selected in ascending order.
LastAscendingSelection ==
    /\ DistinctValues
    /\ wrongCount = 0
    /\ \E id \in 0..(bubbleCount - 1) :
          /\ \A j \in DOMAIN bubbles : ~bubbles[j].selected => bubbles[j].id = id
          /\ Selects(id)

\* C12: selecting every bubble of a round of pairwise-distinct values in ascending
\* order leaves correctCount at the number of bubbles and wrongCount at 0 with every
\* bubble consumed, and schedules exactly one completion of that round; the click
\* itself ends no round, and the completion, when it fires (the oldest pending
\* completion leaves the list) and passes the latch, records a completed round.
C12_AscendingOrderCompletes ==
    [][ /\ LastAscendingSelection =>
            /\ correctCount' = Len(bubbles)
            /\ correctCount' = bubbleCount
            /\ wrongCount' = 0
            /\ AllSelected(bubbles')
            /\ processing'
            /\ Len(timeouts') = Len(timeouts) + 1
            /\ SubSeq(timeouts', 1, Len(timeouts)) = timeouts
            /\ Last(timeouts').c.round = round
            /\ UNCHANGED <<screen, round, roundResults, totalScore, roundEnded, entered>>
        /\ (~roundEnded /\ timeouts # <<>> /\ timeouts' = Tail(timeouts)) =>
            /\ AppendsOne(roundResults, roundResults')
            /\ Last(roundResults').completed
            /\ Last(roundResults').round = Head(timeouts).c.round ]_vars

\* All bubbles of a round of distinct values are consumed with no wrong selection,
\* and the completion of the round is pending.
C12_Witness ==
    /\ screen = "PLAYING"
    /\ DistinctValues
    /\ AllSelected(bubbles)
    /\ correctCount = bubbleCount
    /\ wrongCount = 0
    /\ processing
    /\ Len(timeouts) = 1
    /\ timeouts[1].c.round = round
    /\ roundResults = <<>>

\* C13: an incorrect selection (an unconsumed bubble that is not the minimum remaining
\* one) adds exactly one to wrongCount and leaves the stimulus set with its consumed
\* flags, correctCount, the advance-rank counter, the round index, the RoundResult
\* list and both countdowns as they were.
C13_WrongSelectionOnlyCounts ==
    [][ \A id \in 0..(bubbleCount - 1) :
            (Selects(id) /\ ~MinimumRemaining(id)) =>
                /\ wrongCount' = wrongCount + 1
                /\ UNCHANGED <<bubbles, correctCount, selectionOrder, round, roundResults,
                               sessionTime, roundTime>> ]_vars

\* One wrong selection was made in round 1 and nothing else has happened since start.
C13_Witness ==
    /\ screen = "PLAYING"
    /\ wrongCount = 1
    /\ correctCount = 0
    /\ selectionOrder = 0
    /\ bubbles # <<>>
    /\ \A i \in DOMAIN bubbles : ~bubbles[i].selected
    /\ round = 1
    /\ roundResults = <<>>
    /\ sessionTime = SESSION_DURATION
    /\ roundTime = ROUND_TIME

\* The completion of the round on display is scheduled and has not fired.
CompletionScheduled == \E k \in DOMAIN timeouts : timeouts[k].c.round = round

\* C14: the selection of a consumed bubble, the selection of an unknown id, a
\* selection made while the completion of the round on display is scheduled and a
\* selection made when the screen is not PLAYING change nothing: the counters, the
\* stimulus set and the scheduled completions stay as they were (a step that changes
\* any of them is no such selection).
C14_IgnoredSelections ==
    [][ \/ UNCHANGED localVars
        \/ \A id \in 0..bubbleCount :
              ~( /\ \/ ~(\E i \in DOMAIN bubbles : bubbles[i].id = id)
                    \/ (\E i \in DOMAIN bubbles : bubbles[i].id = id /\ bubbles[i].selected)
                    \/ CompletionScheduled
                    \/ screen # "PLAYING"
                 /\ handleBubbleClick(id) ) ]_vars

\* A state in which every case of C14 can occur in round 2: a consumed bubble is on
\* display and was preceded by a wrong selection, and the completion of the round is
\* scheduled.
C14_Witness ==
    /\ screen = "PLAYING"
    /\ round = 2
    /\ CompletionScheduled
    /\ processing
    /\ wrongCount = 1
    /\ \E i \in DOMAIN bubbles : bubbles[i].selected

\* A step in which endRound is called and passes the latch: the expiry of the round
\* countdown, or the settle-delay completion firing.
EndRoundPasses ==
    /\ ~roundEnded
    /\ \/ RoundTick /\ roundTime <= 1
       \/ TimeoutFire

\* C15: an endRound call that passes the latch appends one RoundResult; then, if the
\* session clock has expired or the round index equals the configured total, the
\* screen is COMPLETE and the round index is as before; otherwise the round index is
\* one higher and that round is started: an unconsumed stimulus set generated for the
\* new index, the round countdown at the new round's time limit, both per-round
\* counters at zero and the latch cleared.
C15_EndRoundAdvancesOrCompletes ==
    [][ EndRoundPasses =>
            /\ AppendsOne(roundResults, roundResults')
            /\ IF sessionTime <= 0 \/ round >= TOTAL_QUESTIONS
               THEN /\ screen' = "COMPLETE"
                    /\ round' = round
               ELSE /\ round' = round + 1
                    /\ bubbles' \in generateBubbles(config(round + 1), round + 1)
                    /\ roundTime' = config(round + 1).roundTime
                    /\ correctCount' = 0
                    /\ wrongCount' = 0
                    /\ ~roundEnded' ]_vars

\* C16: start() on the INSTRUCTIONS screen gives screen PLAYING, round index 1, the
\* session countdown at the full session duration, the round countdown at round 1's
\* time limit, an empty RoundResult list, total score 0, both per-round counters at
\* zero, the latch cleared and a newly generated stimulus set for round 1 with no
\* bubble consumed.
C16_StartEntersRoundOne ==
    [][ handleStart =>
            /\ screen' = "PLAYING"
            /\ round' = 1
            /\ sessionTime' = SESSION_DURATION
            /\ roundTime' = config(1).roundTime
            /\ roundResults' = <<>>
            /\ totalScore' = 0
            /\ correctCount' = 0
            /\ wrongCount' = 0
            /\ ~roundEnded'
            /\ bubbles' \in generateBubbles(config(1), 1)
            /\ Len(bubbles') = config(1).bubbleCount
            /\ \A i \in DOMAIN bubbles' : ~bubbles'[i].selected ]_vars

\* The state right after start(): round 1 on display, nothing selected, no tick yet.
C16_Witness ==
    /\ screen = "PLAYING"
    /\ entered = 1
    /\ round = 1
    /\ sessionTime = SESSION_DURATION
    /\ roundTime = config(1).roundTime
    /\ roundResults = <<>>
    /\ totalScore = 0
    /\ correctCount = 0
    /\ wrongCount = 0
    /\ ~roundEnded
    /\ Len(bubbles) = bubbleCount
    /\ \A i \in DOMAIN bubbles : ~bubbles[i].selected

\* The sum of the score fields of a RoundResult list.
RECURSIVE SumOfScores(_)
SumOfScores(results) ==
    IF results = <<>> THEN 0 ELSE results[1].score + SumOfScores(Tail(results))

\* C17: every RoundResult has score = correct - wrong, the total score is the sum of
\* the scores of the RoundResult list in every reachable state, and a step either
\* leaves the list alone or appends one record to it: no record is modified or
\* removed.
C17_ScoresAddUp ==
    /\ [](/\ \A k \in DOMAIN roundResults :
                roundResults[k].score = roundResults[k].correct - roundResults[k].wrong
          /\ totalScore = SumOfScores(roundResults))
    /\ [][ roundResults' = roundResults \/ AppendsOne(roundResults, roundResults') ]_vars

\* Two rounds are recorded, the first with a wrong selection and the second with a
\* correct one.
C17_Witness ==
    /\ Len(roundResults) = 2
    /\ roundResults[1].wrong = 1
    /\ roundResults[2].correct > 0
    /\ roundResults[1].score # roundResults[2].score

(***************************************************************************)
(* Responses of the remote authority (checked under RemoteSpec)            *)
(***************************************************************************)
\* The counters a response can have carried when its processing left this value in
\* the local counter: none, or the value itself.
CarriedFor(value) == {NULL, Some(value)} \cap ApiCounters

\* C18: after a rotate or flip response is processed the local grid is exactly the
\* grid the response carries (no step is the processing of a rotate or flip response
\* that carries another grid than the local grid after the step), and the local grid
\* changes only in a step that processes a start, rotate or flip response.
C18_GridIsTheResponseGrid ==
    [][ /\ \A i \in DOMAIN inflight :
              inflight' = RemoveAt(inflight, i) =>
                 \A g \in ApiGrids \ {gameState'.grid} :
                    /\ \A n \in CarriedFor(gameState'.rotations) : ~RotateResponse(i, g, n)
                    /\ \A n \in CarriedFor(gameState'.flips) : ~FlipResponse(i, g, n)
        /\ gameState'.grid # gameState.grid =>
              \E i \in DOMAIN inflight, g \in ApiGrids :
                 /\ inflight' = RemoveAt(inflight, i)
                 /\ toGrid(g) = gameState'.grid
                 /\ \/ \E sid \in SessionIds : StartResponse(i, sid, g)
                    \/ \E n \in CarriedFor(gameState'.rotations) : RotateResponse(i, g, n)
                    \/ \E n \in CarriedFor(gameState'.flips) : FlipResponse(i, g, n) ]_vars

\* A rotate response that carried no counter was processed on top of a grid, and the
\* selected tile of the local state is one of that grid.
C18_Witness ==
    /\ gameState.grid \in ApiGrids
    /\ gameState.rotations = 1
    /\ gameState.flips = 0
    /\ gameState.moves = 1
    /\ gameState.selectedTile # NULL

\* C19: after a select, rotate or flip response is processed, the counter of that
\* action (moves, rotations, flips) is the value the response carries when it carries
\* one, and the previous value plus one otherwise.
C19_CountersFollowResponse ==
    [][ \A i \in DOMAIN inflight, g \in ApiGrids, n \in ApiCounters :
          /\ SelectResponse(i, n) =>
                gameState'.moves = OrElse(n, gameState.moves + 1)
          /\ RotateResponse(i, g, n) =>
                gameState'.rotations = OrElse(n, gameState.rotations + 1)
          /\ FlipResponse(i, g, n) =>
                gameState'.flips = OrElse(n, gameState.flips + 1) ]_vars

\* C20: a submit response that is not accepted (valid is false, or it has no path)
\* adds exactly one to attempts and leaves status, grid, selectedTile, moves,
\* rotations, flips, timeRemaining and the animation path as they were; no WON
\* transition is scheduled.
C20_RejectedSubmitCountsAttempt ==
    [][ \A i \in DOMAIN inflight, valid \in BOOLEAN,
           path \in {Some(q) : q \in ApiPaths} \cup {NULL} :
            (SubmitResponse(i, valid, path) /\ (~valid \/ path = NULL)) =>
                /\ gameState' = [gameState EXCEPT !.attempts = gameState.attempts + 1]
                /\ animationPath' = animationPath
                /\ wonTimers' = wonTimers ]_vars

\* An attempt was counted and the game is still being played with nothing animating
\* and no WON transition pending: the counted submit was not accepted.
C20_Witness ==
    /\ gameState.attempts = 1
    /\ gameState.status = "PLAYING"
    /\ gameState.grid # <<>>
    /\ animationPath = <<>>
    /\ wonTimers = <<>>

(***************************************************************************)
(* Properties of the remote-backed engine, continued                       *)
(***************************************************************************)
\* C21: when an accepted submit answer (valid, with a path of L cells) is processed the
\* status becomes ANIMATING; from ANIMATING the status only stays or becomes WON; and
\* the status becomes WON only from ANIMATING, at a moment when every accepted answer
\* still awaiting its timeout was processed at least L animation steps and at most
\* L animation steps plus the end buffer plus one step earlier.
C21_AnimatingUntilWon ==
    [][ /\ Len(wonTimers') > Len(wonTimers) => gameState'.status = "ANIMATING"
        /\ gameState.status = "ANIMATING" => gameState'.status \in {"ANIMATING", "WON"}
        /\ (gameState'.status = "WON" /\ gameState.status # "WON") =>
              /\ gameState.status = "ANIMATING"
              /\ \A k \in DOMAIN wonTimers :
                    /\ wonTimers[k].waited >= wonTimers[k].delay - ANIMATION_END_BUFFER_MS
                    /\ wonTimers[k].waited <= wonTimers[k].delay + ANIMATION_STEP_MS ]_vars
\* C22: when the countdown reaches zero while the status is PLAYING, the status becomes
\* LOST with timeRemaining = 0 and nothing else changes, whatever calls are
\* outstanding (they stay outstanding); and while the status is LOST the countdown
\* does not tick.
C22_CountdownExpiry ==
    [][ /\ (gameState.status = "PLAYING" /\ gameState.timeRemaining > 0
                /\ gameState'.timeRemaining = 0) =>
              /\ gameState' = [gameState EXCEPT !.timeRemaining = 0, !.status = "LOST"]
              /\ inflight' = inflight
        /\ (gameState.status = "PLAYING" /\ gameState.timeRemaining <= 1 /\ CountdownTick) =>
              gameState'.status = "LOST" /\ gameState'.timeRemaining = 0
        /\ gameState.status = "LOST" =>
              ~CountdownTick /\ (gameState'.status = "LOST" =>
                                    gameState'.timeRemaining = gameState.timeRemaining) ]_vars

\* The countdown has run out with a select call still outstanding.
C22_Witness ==
    /\ gameState.status = "LOST"
    /\ gameState.timeRemaining = 0
    /\ \E i \in DOMAIN inflight : inflight[i].kind = "select"
\* C23: a select, rotate, flip or submit request is issued only after the start answer
\* has been processed (the start call is no longer outstanding and a session id is
\* set), and every such request carries the session id that answer returned.
C23_RequestsCarrySession ==
    /\ [](\A i \in DOMAIN inflight :
             inflight[i].kind # "start" =>
                /\ sessionId \in SessionIds
                /\ inflight[i].sid = sessionId)
    /\ [][ Len(inflight') > Len(inflight) =>
              /\ Last(inflight').kind \in {"select", "rotate", "flip", "submit"}
              /\ \A i \in DOMAIN inflight : inflight[i].kind # "start"
              /\ sessionId \in SessionIds
              /\ Last(inflight').sid = sessionId ]_vars

\* A rotate and a submit request are outstanding together.
C23_Witness ==
    /\ \E i \in DOMAIN inflight : inflight[i].kind = "rotate" /\ inflight[i].sid = sessionId
    /\ \E i \in DOMAIN inflight : inflight[i].kind = "submit" /\ inflight[i].sid = sessionId
\* C24: a rotate or flip request is issued only when the status is PLAYING and a cell is
\* selected (a select action of this session came before: moves counts it), and the
\* request carries the row and column of the cell selected when the action is invoked.
C24_RotateFlipOnSelection ==
    [][ (Len(inflight') > Len(inflight) /\ Last(inflight').kind \in {"rotate", "flip"}) =>
           /\ gameState.status = "PLAYING"
           /\ gameState.selectedTile # NULL
           /\ gameState.moves > 0
           /\ Last(inflight').pos = gameState.selectedTile ]_vars

\* A flip request for the selected cell is outstanding.
C24_Witness ==
    /\ gameState.selectedTile # NULL
    /\ \E i \in DOMAIN inflight :
          inflight[i].kind = "flip" /\ inflight[i].pos = gameState.selectedTile
\* The start call has failed: it is no longer outstanding and no session id was set.
StartFailed ==
    /\ sessionId = ""
    /\ \A i \in DOMAIN inflight : inflight[i].kind # "start"

\* C25: once the start call has failed, the grid is empty, the session id is unset, no
\* call is outstanding, selectedTile and the four counters have their initial values;
\* and it stays so: no request (start included) is issued afterwards.
C25_FailedStartStaysInert ==
    /\ [](StartFailed =>
             /\ gameState.grid = <<>>
             /\ inflight = <<>>
             /\ gameState.selectedTile = NULL
             /\ gameState.moves = 0 /\ gameState.rotations = 0
             /\ gameState.flips = 0 /\ gameState.attempts = 0
             /\ animationPath = <<>>)
    /\ [][StartFailed => (StartFailed' /\ inflight' = <<>>)]_vars

\* The start call has failed and the countdown has then run out.
C25_Witness == StartFailed /\ gameState.status = "LOST"
\* C26: every call or WON timeout left pending by an instance that was torn down holds
\* a liveness flag captured when it was issued, and none of them calls a state setter
\* when it completes.
C26_LateCompletionsAreGuarded ==
    /\ \A i \in DOMAIN levels.orphans : Cancellable(levels.orphans[i])
    /\ ~levels.lateUpdate

\* C27: at most one select, rotate, flip or submit call is outstanding at any time.
C27_OneMutatingCallOutstanding ==
    Cardinality({ i \in DOMAIN inflight :
                    inflight[i].kind \in {"select", "rotate", "flip", "submit"} }) <= 1
(***************************************************************************)
(* Properties of the expression generator                                  *)
(***************************************************************************)
\* The slots whose value repeats the value of an earlier slot.
RepeatedSlots ==
    { j \in DOMAIN gen.bubbles :
        \E i \in DOMAIN gen.bubbles : i < j /\ gen.bubbles[i].value = gen.bubbles[j].value }

\* C28: for every configuration and round index, the list generateBubbles returns has
\* exactly bubbleCount stimuli, with ids in generation order, and a stimulus repeats
\* the value of an earlier one only in a slot where every one of the permitted
\* attempts drew a value already in use (the last of them is then accepted); while
\* the list is built it holds one stimulus per finished slot.
C28_DistinctUnlessExhausted ==
    /\ Len(gen.bubbles) = gen.i
    /\ \A j \in RepeatedSlots : gen.bubbles[j].id \in gen.exhausted
    /\ \A j \in DOMAIN gen.bubbles : gen.bubbles[j].id = j - 1
    /\ gen.pc = "done" => Len(gen.bubbles) = The(gen.config).bubbleCount

\* A returned list in which the last slot ran out of attempts and repeats a value.
C28_Witness ==
    /\ gen.pc = "done"
    /\ Len(gen.bubbles) = bubbleCount
    /\ gen.exhausted = {bubbleCount - 1}
    /\ RepeatedSlots = {bubbleCount}
\* The displayed expression evaluated in integer arithmetic; a division gives its
\* quotient and its remainder.
Evaluate(expression) ==
    LET a == expression[1]
        op == expression[2]
        b == expression[3]
    IN CASE op = "+" -> [result |-> a + b, remainder |-> 0]
         [] op = "-" -> [result |-> a - b, remainder |-> 0]
         [] op = "*" -> [result |-> a * b, remainder |-> 0]
         [] op = "/" -> [result |-> a \div b, remainder |-> a % b]

\* C29: for every entry of the difficulty table, every operator and every operand pair
\* generateExpression can draw, the displayed expression "a op b" evaluates in integer
\* arithmetic to exactly the stored value; a division has a non-zero divisor, leaves
\* no remainder, and its dividend is divisor times quotient.
C29_ExpressionEvaluatesToValue ==
    gen.expr # NULL =>
        LET e == The(gen.expr) IN
        /\ e.expression[2] \in {"+", "-", "*", "/"}
        /\ e.expression[2] = "/" => e.expression[3] # 0
        /\ Evaluate(e.expression) = [result |-> e.value, remainder |-> 0]
        /\ e.expression[2] = "/" => e.expression[1] = e.expression[3] * e.value

\* A division with a quotient above one has been generated.
C29_Witness ==
    /\ gen.expr # NULL
    /\ The(gen.expr).expression = <<24, "/", 8>>
    /\ The(gen.expr).value = 3

\* C30: for every maxNumber of the difficulty table: the operands of an addition lie in
\* 1..maxNumber; a subtraction has its minuend in 2..maxNumber and its subtrahend in
\* 0..minuend, so its value is not negative; the operands of a multiplication lie in
\* 1..min(maxNumber, 12) and 1..min(maxNumber, 9); a division has its divisor in
\* 2..min(maxNumber, 10) and its quotient in 1..min(maxNumber, 12).
C30_OperandBounds ==
    gen.expr # NULL =>
        LET a == The(gen.expr).expression[1]
            op == The(gen.expr).expression[2]
            b == The(gen.expr).expression[3]
            value == The(gen.expr).value
            maxNum == The(gen.config).maxNumber
        IN /\ op = "+" => a \in 1..maxNum /\ b \in 1..maxNum
           /\ op = "-" => a \in 2..maxNum /\ b \in 0..a /\ value >= 0
           /\ op = "*" => a \in 1..Min(maxNum, 12) /\ b \in 1..Min(maxNum, 9)
           /\ op = "/" => b \in 2..Min(maxNum, 10) /\ value \in 1..Min(maxNum, 12)

\* A subtraction whose subtrahend is the minuend, at the largest minuend of an entry.
C30_Witness ==
    /\ gen.expr # NULL
    /\ The(gen.config).maxNumber = 30
    /\ The(gen.expr).expression = <<30, "-", 30>>
    /\ The(gen.expr).value = 0
(***************************************************************************)
(* Claims C31..C40                                                         *)
(***************************************************************************)
\* C31: Difficulty lookup.  For every round number r >= 1 that startRound is called
\* with, also one past the length of the table or past TOTAL_QUESTIONS, the lookup
\* is defined and yields an entry of the table: the r-th entry while r is within
\* the table, the last entry for every r past its end.
C31_DifficultyLookup ==
    gen.roundNum >= 1 =>
        /\ gen.config # NULL
        /\ \E d \in DOMAIN DIFFICULTY_TABLE : The(gen.config) = DIFFICULTY_TABLE[d]
        /\ gen.roundNum <= Len(DIFFICULTY_TABLE)
              => The(gen.config) = DIFFICULTY_TABLE[gen.roundNum]
        /\ gen.roundNum > Len(DIFFICULTY_TABLE)
              => The(gen.config) = DIFFICULTY_TABLE[Len(DIFFICULTY_TABLE)]

\* A round past the table and past the round total has been configured and its
\* first expression drawn.
C31_Witness ==
    /\ gen.roundNum > Len(DIFFICULTY_TABLE)
    /\ gen.roundNum > TOTAL_QUESTIONS
    /\ gen.expr # NULL

\* C33: Local engine.  In every reachable state the round index lies in
\* 1..TOTAL_QUESTIONS, however round-countdown expiries, settle-delay completions
\* and early submits interleave.
C33_RoundInRange == round \in 1..TOTAL_QUESTIONS

\* C35: Local engine.  Every RoundResult that is appended, by the completion after
\* the last selection, by the expiry of the round countdown or by an early submit,
\* records as correct and wrong the live values of the two counters at that moment,
\* and a result appended while every bubble on display is consumed records
\* correct = the number of bubbles.
C35_ResultRecordsLiveCounts ==
    [][ AppendsOne(roundResults, roundResults') =>
            /\ Last(roundResults').correct = correctCount
            /\ Last(roundResults').wrong = wrongCount
            /\ (bubbles # <<>> /\ AllSelected(bubbles))
                  => Last(roundResults').correct = Len(bubbles) ]_vars

\* The bubbles of the active round that have been consumed.
Consumed == {i \in DOMAIN bubbles : bubbles[i].selected}

\* C36: Local engine.  In every reachable PLAYING state correctCount is the number of
\* consumed bubbles of the active round and at most the number of bubbles, and a
\* completion of the active round is scheduled (the processing flag is set and a
\* settle-delay timeout of this round is pending) iff every bubble is consumed.
C36_CountMatchesConsumed ==
    screen = "PLAYING" =>
        /\ correctCount = Cardinality(Consumed)
        /\ correctCount <= Len(bubbles)
        /\ CompletionScheduled <=> AllSelected(bubbles)
        /\ processing <=> AllSelected(bubbles)

\* A second round is on display, some of its bubbles consumed and some not, after a
\* first round whose completion was scheduled and has fired.
C36_Witness ==
    /\ screen = "PLAYING"
    /\ round = 2
    /\ correctCount = 2
    /\ ~AllSelected(bubbles)
    /\ roundResults # <<>>
    /\ Last(roundResults).completed

\* Every consumed bubble has a value at most that of every bubble not yet consumed.
ConsumedArePrefix ==
    \A i, j \in DOMAIN bubbles :
        (bubbles[i].selected /\ ~bubbles[j].selected) => bubbles[i].value <= bubbles[j].value

\* C37: Local engine.  In every reachable state the consumed bubbles of the active
\* round are a prefix of the ascending order of values, and as long as no new round
\* is started a consumed bubble stays consumed and the bubbles keep their ids and
\* values.
C37_ConsumedPrefix ==
    /\ []ConsumedArePrefix
    /\ [][ entered' = entered =>
              /\ DOMAIN bubbles' = DOMAIN bubbles
              /\ \A i \in DOMAIN bubbles :
                    /\ bubbles'[i].id = bubbles[i].id
                    /\ bubbles'[i].value = bubbles[i].value
                    /\ bubbles[i].selected => bubbles'[i].selected ]_vars

\* A bubble was consumed, then a selection out of order was made, and a bubble of a
\* greater value is still on display.
C37_Witness ==
    /\ screen = "PLAYING"
    /\ wrongCount > 0
    /\ \E i, j \in DOMAIN bubbles :
          bubbles[i].selected /\ ~bubbles[j].selected /\ bubbles[i].value < bubbles[j].value

\* C34: Local engine.  With time passing and the timers running, whatever is
\* selected or submitted, a PLAYING screen eventually becomes COMPLETE, and no round
\* is on display for longer than its time limit plus the settle delay.
C34_SessionTerminates ==
    /\ (timed.screen = "PLAYING") ~> (timed.screen = "COMPLETE")
    /\ [](timed.active <= Tunables(timed.shipped).round * INTERVAL_MS + CORRECT_DELAY_MS)

\* A round was played for its whole time limit and ended by the round timer, and
\* later the session timer completed the session.
C34_Witness ==
    /\ timed.screen = "COMPLETE"
    /\ timed.completedBy = "session"
    /\ timed.results = 1
    /\ timed.round = 2

\* C38: Local engine with the shipped tunables (session 420 s, round limit 15 s,
\* 20 rounds, settle delay 250 ms).  The session countdown never reaches zero while
\* PLAYING, because the rounds use the session up no faster than their time limit
\* allows: the seconds counted off the session are at most 15 per round entered.
\* So no session is completed by the session timer: every COMPLETE screen was set
\* by endRound or by an early submit, and at least one RoundResult was appended.
C38_SessionOutlastsRounds ==
    /\ timed.screen = "PLAYING" =>
          /\ timed.sessionTime > 0
          /\ Shipped.session - timed.sessionTime <= Shipped.round * timed.round
    /\ timed.completedBy # "session"
    /\ timed.screen = "COMPLETE" =>
          /\ timed.completedBy \in {"endRound", "submit"}
          /\ timed.results >= 1

\* Every one of the 20 rounds ran out and the last one completed the session, with
\* 120 s left on the session countdown.
C38_Witness ==
    /\ timed.shipped
    /\ timed.screen = "COMPLETE"
    /\ timed.completedBy = "endRound"
    /\ timed.round = Shipped.total
    /\ timed.results = Shipped.total
    /\ timed.sessionTime = Shipped.session - Shipped.total * Shipped.round

\* C32: Assessment flow.  Completing the last level shows the RESULTS step in that
\* very step and sends the whole result list out; the step and the list then stay as
\* they are whether the results call is answered, rejected or left unanswered; and
\* a rejected call stores the list it was sent with, under a timestamp, after the
\* entries local storage already held, all of which are kept.
C32_ResultsShownAndKept ==
    /\ [](levels.saves # <<>> => levels.step = "RESULTS")
    /\ [][ (levels.step = "GAME" /\ levels.currentLevel = LevelCount - 1 /\ levels' # levels) =>
              /\ levels'.step = "RESULTS"
              /\ Len(levels'.results) = LevelCount
              /\ levels'.saves = <<levels'.results>> ]_vars
    /\ [][ levels.step = "RESULTS" =>
              /\ levels'.step = "RESULTS"
              /\ levels'.results = levels.results
              /\ SaveRejected =>
                    \E now \in Instants :
                       ParseEntries(The(levels'.storage)) =
                          Append(ParseEntries(getItem_or_empty),
                                 [timestamp |-> toISOString(now), scores |-> levels.results])
              /\ ~SaveRejected => levels'.storage = levels.storage ]_vars

\* The results call was rejected with an entry of an earlier run in local storage:
\* the RESULTS step is on display and local storage holds both entries.
C32_Witness ==
    /\ levels.step = "RESULTS"
    /\ levels.saves = <<>>
    /\ levels.storage # NULL
    /\ Len(The(levels.storage)) = 2
    /\ ParseEntries(The(levels.storage))[2].scores = levels.results
    /\ \E i \in DOMAIN levels.results : levels.results[i].success

\* C39: in the remote-backed engine, for every accepted path of length L >= 1 all
\* L + 2 replay waypoints (entry offset, the L path cells, exit offset) are revealed
\* one per animation tick in path order and the last one is on display, with no
\* waypoint left to reveal, when the WON transition fires; and once the status has
\* left ANIMATING no waypoint is shown or still scheduled.
C39_ReplayShowsWholePath ==
    /\ [][ (gameState.status = "ANIMATING" /\ gameState'.status = "WON"
              /\ Len(animationPath) >= 1) =>
              /\ rocket.timers = <<>>
              /\ rocket.pos = Some(Last(Waypoints(gameState, animationPath))) ]_vars
    /\ [][ (rocket'.pos # rocket.pos /\ rocket'.pos # NULL) =>
              LET waypoints == Waypoints(gameState', animationPath') IN
              \/ rocket'.pos = Some(waypoints[1])
              \/ \E i \in 1..(Len(waypoints) - 1) :
                    /\ rocket.pos = Some(waypoints[i])
                    /\ rocket'.pos = Some(waypoints[i + 1]) ]_vars
    /\ [](gameState.status # "ANIMATING" => rocket = NoRocket)

\* C40: the LAUNCHER, PIPE_PUZZLE and BUBBLE_SORT screens are shown only when the
\* video, audio, system and fullscreen checks are all 'passed' and a combined media
\* stream is set; in every reachable state the four checks being 'passed' implies
\* that the media stream is set; and a run of the checks starts only when no run
\* is in progress.
C40_EntryGated ==
    /\ [](app.screen \in {"LAUNCHER", "PIPE_PUZZLE", "BUBBLE_SORT"} =>
             allPassed(app) /\ app.mediaStream # NULL)
    /\ [](allPassed(app) => app.mediaStream # NULL)
    /\ [](Len(app.runs) <= 1)
    /\ [][app'.started > app.started => app.runs = <<>>]_vars
    /\ [][(app.screen \notin {"LAUNCHER", "PIPE_PUZZLE", "BUBBLE_SORT"}
              /\ app'.screen \in {"LAUNCHER", "PIPE_PUZZLE", "BUBBLE_SORT"}) =>
              allPassed(app) /\ app.mediaStream # NULL /\ app.runs = <<>>]_vars

\* A section is on display after a first run of the checks failed, its tracks were
\* stopped, and a second run passed and stored the stream of its own tracks.
C40_Witness ==
    /\ app.screen = "BUBBLE_SORT"
    /\ app.started = 2
    /\ app.stopped = {<<"video", 1>>, <<"audio", 1>>}
    /\ allPassed(app)
    /\ app.mediaStream = Some([video |-> 2, audio |-> 2])
    /\ app.recorders = 1

====
